---------------------------- MODULE Spec2Model ----------------------------
(***************************************************************************)
(* A model of the Nord TypeScript client: the scaled-integer conversion    *)
(* (src/src/utils.ts), the six action functions (src/src/nord/actions.ts)  *)
(* and the NordUser methods that call them (src/unnamed/part_001).         *)
(*                                                                         *)
(* Numbers that do not fit a machine word (2^64, 2^128, decimal values of  *)
(* any precision) are sequences of decimal digits, most significant first. *)
(***************************************************************************)
EXTENDS Integers, Sequences, FiniteSets, TLC

VARIABLES
    conv,       \* one toScaledU64 / toScaledU128 conversion: input and result
    now,        \* Date.now(), in milliseconds
    users,      \* the NordUser objects, in order of construction
    arrays,     \* the accountIds list objects the users refer to
    calls       \* the action calls made so far, running or finished

vars == <<conv, now, users, arrays, calls>>

(***************************************************************************)
(* Bounds of the model.                                                    *)
(***************************************************************************)
MaxDecimals == 3    \* `decimals` ranges over 0..MaxDecimals
MaxShift == 4       \* inputs are mantissas divided by 10^k, k in 0..MaxShift
MaxCalls == 2       \* NordUser action calls made in one behaviour
MaxSecond == 2      \* Date.now() stays below (MaxSecond + 1) * 1000
MaxMilli == 1       \* and within 0..MaxMilli milliseconds of a full second

(***************************************************************************)
(* Digit sequences.                                                        *)
(***************************************************************************)
Digit == 0..9

Zeros(n) == [i \in 1..n |-> 0]

Rep(d, n) == [i \in 1..n |-> d]

\* the number of leading zeros of ds
LeadingZeros(ds) ==
    IF \A i \in 1..Len(ds) : ds[i] = 0 THEN Len(ds)
    ELSE (CHOOSE i \in 1..Len(ds) :
             ds[i] # 0 /\ \A j \in 1..(i - 1) : ds[j] = 0) - 1

\* the number of trailing digits of ds equal to d
TrailingRun(ds, d) ==
    IF \A i \in 1..Len(ds) : ds[i] = d THEN Len(ds)
    ELSE Len(ds) - (CHOOSE i \in 1..Len(ds) :
                       ds[i] # d /\ \A j \in (i + 1)..Len(ds) : ds[j] = d)

\* without leading zeros; a zero keeps one digit
StripLeading(ds) ==
    IF ds = <<>> THEN ds
    ELSE LET lz == LeadingZeros(ds)
         IN IF lz = Len(ds) THEN <<0>> ELSE SubSeq(ds, lz + 1, Len(ds))

\* without trailing zeros; a zero keeps one digit
StripTrailing(ds) ==
    IF ds = <<>> THEN ds
    ELSE LET tz == TrailingRun(ds, 0)
         IN IF tz = Len(ds) THEN <<0>> ELSE SubSeq(ds, 1, Len(ds) - tz)

\* a < b for digit sequences of one length
LexLess(a, b) ==
    \E i \in 1..Len(a) :
        /\ a[i] < b[i]
        /\ \A j \in 1..(i - 1) : a[j] = b[j]

\* a < b for digit sequences without leading zeros
DigitsLess(a, b) ==
    IF Len(a) # Len(b) THEN Len(a) < Len(b) ELSE LexLess(a, b)

\* ds + 1: the trailing nines turn to zeros
DigitsInc(ds) ==
    LET n == Len(ds)
        t == TrailingRun(ds, 9)
    IN IF t = n THEN <<1>> \o Zeros(n)
       ELSE [i \in 1..n |-> IF i < n - t THEN ds[i]
                            ELSE IF i = n - t THEN ds[i] + 1 ELSE 0]

\* ds - 1 for ds >= 1: the trailing zeros turn to nines
DigitsDec(ds) ==
    LET n == Len(ds)
        t == TrailingRun(ds, 0)
    IN StripLeading([i \in 1..n |-> IF i < n - t THEN ds[i]
                                    ELSE IF i = n - t THEN ds[i] - 1 ELSE 9])

(***************************************************************************)
(* Products and sums work on limbs of four digits, least significant       *)
(* first, which keeps the recursion short.                                 *)
(***************************************************************************)
ToLimbs(ds) ==
    LET n == Len(ds)
        D(i) == IF i >= 1 THEN ds[i] ELSE 0
    IN [j \in 1..((n + 3) \div 4) |->
          LET p == n - 4 * (j - 1)
          IN D(p) + 10 * D(p - 1) + 100 * D(p - 2) + 1000 * D(p - 3)]

Pow10(t) == IF t = 0 THEN 1 ELSE IF t = 1 THEN 10 ELSE IF t = 2 THEN 100 ELSE 1000

FromLimbs(ls) ==
    LET n == 4 * Len(ls)
    IN StripLeading([i \in 1..n |->
          (ls[((n - i) \div 4) + 1] \div Pow10((n - i) % 4)) % 10])

\* ls * m + carry, for one limb m
RECURSIVE MulLimb(_, _, _)
MulLimb(ls, m, carry) ==
    IF ls = <<>> THEN (IF carry = 0 THEN <<>> ELSE <<carry>>)
    ELSE LET p == ls[1] * m + carry
         IN IF p < 10000 THEN <<p>> \o MulLimb(Tail(ls), m, 0)
            ELSE <<p % 10000>> \o MulLimb(Tail(ls), m, p \div 10000)

\* a + b + carry
RECURSIVE AddLimbs(_, _, _)
AddLimbs(a, b, carry) ==
    IF a = <<>> /\ b = <<>> THEN (IF carry = 0 THEN <<>> ELSE <<carry>>)
    ELSE LET t == (IF a = <<>> THEN 0 ELSE a[1])
                  + (IF b = <<>> THEN 0 ELSE b[1]) + carry
             ra == IF a = <<>> THEN <<>> ELSE Tail(a)
             rb == IF b = <<>> THEN <<>> ELSE Tail(b)
         IN IF t < 10000 THEN <<t>> \o AddLimbs(ra, rb, 0)
            ELSE <<t - 10000>> \o AddLimbs(ra, rb, 1)

\* schoolbook product a * b
RECURSIVE MulLimbs(_, _)
MulLimbs(a, b) ==
    IF b = <<>> THEN <<>>
    ELSE AddLimbs(MulLimb(a, b[1], 0), <<0>> \o MulLimbs(a, Tail(b)), 0)

DigitsMul(a, b) == FromLimbs(MulLimbs(ToLimbs(a), ToLimbs(b)))

\* 2^n as a digit sequence: 1n << BigInt(n)
RECURSIVE BigShiftLeftOne(_)
BigShiftLeftOne(n) ==
    IF n = 0 THEN <<1>>
    ELSE IF n % 2 = 0
    THEN LET h == BigShiftLeftOne(n \div 2) IN DigitsMul(h, h)
    ELSE DigitsMul(BigShiftLeftOne(n - 1), <<2>>)

\* Number.prototype.toString for a non-negative integer, as digits
RECURSIVE IntDigits(_)
IntDigits(n) ==
    IF n < 10 THEN <<n>> ELSE Append(IntDigits(n \div 10), n % 10)

(***************************************************************************)
(* Strings are sequences of one-character strings.                         *)
(***************************************************************************)
DigitChar == <<"0", "1", "2", "3", "4", "5", "6", "7", "8", "9">>

DigitChars == {DigitChar[i] : i \in 1..10}

CharDigit(c) == (CHOOSE i \in 1..10 : DigitChar[i] = c) - 1

ToChars(ds) == [i \in 1..Len(ds) |-> DigitChar[ds[i] + 1]]

FromChars(cs) == [i \in 1..Len(cs) |-> CharDigit(cs[i])]

(***************************************************************************)
(* bigint: sign and magnitude.                                             *)
(***************************************************************************)
Big(ds) == [neg |-> FALSE, mag |-> ds]

\* bigint.toString()
BigToString(b) ==
    (IF b.neg THEN <<"-">> ELSE <<>>) \o ToChars(b.mag)

Ok(v) == [status |-> "ok", value |-> v, error |-> ""]

Throw(msg) == [status |-> "throw", value |-> Big(<<0>>), error |-> msg]

\* BigInt(string): a SyntaxError unless the string is an integer literal
BigIntParse(cs) ==
    LET neg == cs # <<>> /\ cs[1] = "-"
        body == IF neg THEN Tail(cs) ELSE cs
    IN IF body = <<>> THEN Ok(Big(<<0>>))
       ELSE IF \E i \in 1..Len(body) : body[i] \notin DigitChars
            THEN Throw("SyntaxError: Cannot convert to a BigInt")
            ELSE LET mag == StripLeading(FromChars(body))
                 IN Ok([neg |-> neg /\ mag # <<0>>, mag |-> mag])

(***************************************************************************)
(* decimal.js values: sign s, exponent e of the first digit, digits d      *)
(* without leading or trailing zeros (zero is d = <<0>>, e = 0).           *)
(***************************************************************************)
DecZero(s) == [s |-> s, e |-> 0, d |-> <<0>>]

DecIsZero(x) == x.d[1] = 0

\* a sign test that never reports a negative value
DecIsNegNever(x) == FALSE

DecIsNeg(x) == x.s < 0

\* new Decimal(string): the value of the literal, not rounded
DecNew(cs) ==
    LET neg == cs # <<>> /\ cs[1] = "-"
        body == IF neg THEN Tail(cs) ELSE cs
        dots == {i \in 1..Len(body) : body[i] = "."}
        dot == IF dots = {} THEN Len(body) + 1 ELSE CHOOSE i \in dots : TRUE
        all == FromChars(SubSeq(body, 1, dot - 1) \o SubSeq(body, dot + 1, Len(body)))
        lz == LeadingZeros(all)
        s == IF neg THEN -1 ELSE 1
    IN IF lz = Len(all) THEN DecZero(s)
       ELSE [s |-> s,
             e |-> (dot - 1) - 1 - lz,
             d |-> StripTrailing(SubSeq(all, lz + 1, Len(all)))]

\* finalise(x, sd, rm): round x to sd significant digits
Finalise(x, sd, rm) ==
    IF DecIsZero(x) \/ Len(x.d) <= sd THEN x
    ELSE IF sd < 0 THEN DecZero(x.s)
    ELSE LET kept == SubSeq(x.d, 1, sd)
             up == rm = "ROUND_HALF_UP" /\ x.d[sd + 1] >= 5
         IN IF ~up
            THEN (IF sd = 0 THEN DecZero(x.s)
                  ELSE [x EXCEPT !.d = StripTrailing(kept)])
            ELSE LET inc == DigitsInc(kept)
                 IN IF Len(inc) > sd
                    THEN [s |-> x.s, e |-> x.e + 1, d |-> <<1>>]
                    ELSE [x EXCEPT !.d = StripTrailing(inc)]

\* the exact product, before rounding
DecTimesExact(x, y) ==
    IF DecIsZero(x) \/ DecIsZero(y) THEN DecZero(x.s * y.s)
    ELSE LET xd == IF Len(x.d) < Len(y.d) THEN y.d ELSE x.d
             yd == IF Len(x.d) < Len(y.d) THEN x.d ELSE y.d
             prod == DigitsMul(xd, yd)
         IN [s |-> x.s * y.s,
             e |-> x.e + y.e + (Len(prod) - (Len(x.d) + Len(y.d) - 1)),
             d |-> StripTrailing(prod)]

\* x.mul(y): the product rounded to Ctor.precision with Ctor.rounding
DecTimes(Ctor, x, y) ==
    Finalise(DecTimesExact(x, y), Ctor.precision, Ctor.rounding)

\* x.pow(n) for an integer n >= 0
RECURSIVE DecIntPow(_, _)
DecIntPow(x, n) ==
    IF n = 0 THEN [s |-> 1, e |-> 0, d |-> <<1>>]
    ELSE DecTimesExact(x, DecIntPow(x, n - 1))

DecPow(Ctor, x, n) ==
    Finalise(DecIntPow(x, n), Ctor.precision, Ctor.rounding)

\* x.truncated(): the integer part
DecTruncated(x) == Finalise(x, x.e + 1, "ROUND_DOWN")

\* x.cmp(y) for finite values
DecCmp(x, y) ==
    IF DecIsZero(x) \/ DecIsZero(y)
    THEN (IF ~DecIsZero(x) THEN x.s ELSE IF ~DecIsZero(y) THEN -y.s ELSE 0)
    ELSE IF x.s # y.s THEN x.s
    ELSE IF x.e # y.e THEN (IF (x.e > y.e) = (x.s > 0) THEN 1 ELSE -1)
    ELSE LET n == IF Len(x.d) > Len(y.d) THEN Len(x.d) ELSE Len(y.d)
             a == x.d \o Zeros(n - Len(x.d))
             b == y.d \o Zeros(n - Len(y.d))
         IN IF a = b THEN 0
            ELSE IF LexLess(b, a) = (x.s > 0) THEN 1 ELSE -1

\* a comparison that never reports an excess
DecGreaterThanNever(x, y) == FALSE

DecGreaterThan(x, y) == DecCmp(x, y) > 0

\* x.toString(): exponential notation outside (toExpNeg, toExpPos)
DecToString(Ctor, x) ==
    LET sign == IF x.s < 0 /\ ~DecIsZero(x) THEN <<"-">> ELSE <<>>
        n == Len(x.d)
    IN sign \o
       (IF DecIsZero(x) THEN <<"0">>
        ELSE IF x.e <= Ctor.toExpNeg \/ x.e >= Ctor.toExpPos
        THEN <<DigitChar[x.d[1] + 1]>>
             \o (IF n > 1 THEN <<".">> \o ToChars(Tail(x.d)) ELSE <<>>)
             \o <<"e", IF x.e < 0 THEN "-" ELSE "+">>
             \o ToChars(IntDigits(IF x.e < 0 THEN -x.e ELSE x.e))
        ELSE IF x.e < 0
        THEN <<"0", ".">> \o ToChars(Zeros(-x.e - 1) \o x.d)
        ELSE IF n <= x.e + 1
        THEN ToChars(x.d \o Zeros(x.e + 1 - n))
        ELSE ToChars(SubSeq(x.d, 1, x.e + 1)) \o <<".">>
             \o ToChars(SubSeq(x.d, x.e + 2, n)))

(***************************************************************************)
(* utils.ts: makeToScaledBigUint, toScaledU64, toScaledU128                *)
(***************************************************************************)
U64MaxDigits == DigitsDec(BigShiftLeftOne(64))

U128MaxDigits == DigitsDec(BigShiftLeftOne(128))

\* (1n << BigInt(bits)) - 1n
BigMaxOf(bits) ==
    Big(IF bits = 64 THEN U64MaxDigits
        ELSE IF bits = 128 THEN U128MaxDigits
        ELSE DigitsDec(BigShiftLeftOne(bits)))

makeToScaledBigUint(params, x, decimals) ==
    LET Dec == [precision |-> params.precision,
                toExpPos |-> params.exponent,
                toExpNeg |-> -params.exponent,
                rounding |-> "ROUND_HALF_UP"]
        Ten == DecNew(<<"1", "0">>)
        Max == DecNew(BigToString(BigMaxOf(params.bits)))
        \* the checks on dec and on scaled
        Checked(dec, scaled) ==
            IF DecIsZero(dec) THEN Ok(Big(<<0>>))
            ELSE IF DecIsNeg(dec) THEN Throw("Number is negative")
            ELSE IF DecIsZero(scaled) THEN Throw("Precision loss")
            ELSE IF DecGreaterThan(scaled, Max)
            THEN Throw("Integer is out of range")
            ELSE BigIntParse(DecToString(Dec, scaled))
        Scaled(dec) ==
            Checked(dec, DecTruncated(DecTimes(Dec, DecPow(Dec, Ten, decimals), dec)))
    IN Scaled(DecNew(x))

toScaledU64(x, decimals) ==
    makeToScaledBigUint([bits |-> 64, precision |-> 20, exponent |-> 28],
                        x, decimals)

toScaledU128(x, decimals) ==
    makeToScaledBigUint([bits |-> 128, precision |-> 40, exponent |-> 56],
                        x, decimals)


(***************************************************************************)
(* Further bigint arithmetic on digit sequences.                           *)
(***************************************************************************)
DigitsAdd(a, b) == FromLimbs(AddLimbs(ToLimbs(a), ToLimbs(b), 0))

BigOfInt(n) == Big(IntDigits(n))

BigLess(a, b) ==
    IF a.neg # b.neg THEN a.neg
    ELSE IF a.neg THEN DigitsLess(b.mag, a.mag)
    ELSE DigitsLess(a.mag, b.mag)

\* a + b for non-negative bigints
BigAdd(a, b) == Big(DigitsAdd(a.mag, b.mag))

\* a * b for non-negative bigints
BigMul(a, b) == Big(DigitsMul(a.mag, b.mag))

Reverse(seq) == [i \in 1..Len(seq) |-> seq[Len(seq) + 1 - i]]

\* limbs most significant first, divided by m < 10000
RECURSIVE ShortDivMsb(_, _, _)
ShortDivMsb(ls, m, rem) ==
    IF ls = <<>> THEN <<>>
    ELSE LET cur == rem * 10000 + ls[1]
         IN <<cur \div m>> \o ShortDivMsb(Tail(ls), m, cur % m)

DigitsDivSmall(ds, m) ==
    FromLimbs(Reverse(ShortDivMsb(Reverse(ToLimbs(ds)), m, 0)))

\* a - b - borrow for a >= b
RECURSIVE SubLimbs(_, _, _)
SubLimbs(a, b, borrow) ==
    IF a = <<>> THEN <<>>
    ELSE LET t == a[1] - (IF b = <<>> THEN 0 ELSE b[1]) - borrow
             rb == IF b = <<>> THEN <<>> ELSE Tail(b)
         IN IF t < 0 THEN <<t + 10000>> \o SubLimbs(Tail(a), rb, 1)
            ELSE <<t>> \o SubLimbs(Tail(a), rb, 0)

DigitsSub(a, b) == FromLimbs(SubLimbs(ToLimbs(a), ToLimbs(b), 0))

RECURSIVE Pow2Int(_)
Pow2Int(n) == IF n = 0 THEN 1 ELSE 2 * Pow2Int(n - 1)

\* ds >> n, thirteen bits at a time
RECURSIVE DigitsShiftRight(_, _)
DigitsShiftRight(ds, n) ==
    IF n = 0 THEN ds
    ELSE IF n >= 13 THEN DigitsShiftRight(DigitsDivSmall(ds, 8192), n - 13)
    ELSE DigitsDivSmall(ds, Pow2Int(n))

\* a shift that leaves the value as it is
BigShiftRightNone(v) == v

\* value >> 64n for a non-negative bigint
BigShiftRight64(v) == Big(DigitsShiftRight(v.mag, 64))

\* value & U64_MAX for a non-negative bigint: the low 64 bits
BigAndU64Max(v) ==
    Big(DigitsSub(v.mag,
                  DigitsMul(DigitsShiftRight(v.mag, 64), BigShiftLeftOne(64))))

\* bigIntToProtoU128 with the two words exchanged
bigIntToProtoU128Swapped(value) ==
    IF BigLess(value, Big(<<0>>)) THEN Throw("Negative number")
    ELSE IF BigLess(Big(U128MaxDigits), value) THEN Throw("U128 overflow")
    ELSE Ok([lo |-> BigAndU64Max(BigShiftRight64(value)),
             hi |-> BigAndU64Max(value)])

\* utils.ts: bigIntToProtoU128
bigIntToProtoU128(value) ==
    IF BigLess(value, Big(<<0>>)) THEN Throw("Negative number")
    ELSE IF BigLess(Big(U128MaxDigits), value) THEN Throw("U128 overflow")
    ELSE Ok([lo |-> BigAndU64Max(value),
             hi |-> BigAndU64Max(BigShiftRight64(value))])

(***************************************************************************)
(* utils.ts: constants, optional values, key lengths.                      *)
(***************************************************************************)
\* 10n * 60n * 1000n * 10000n
SESSION_TTL ==
    BigMul(BigMul(BigOfInt(10), BigOfInt(60)),
           BigMul(BigOfInt(1000), BigOfInt(10000)))

MAX_PAYLOAD_SIZE == 100 * 1024

\* T | undefined
None == <<>>

Some(v) == <<v>>

\* a Uint8Array of which only the length matters
Key(n) == [len |-> n]

\* a key check that accepts every key
checkPubKeyLengthAny(keyType, len) == Ok(Big(<<0>>))

checkPubKeyLength(keyType, len) ==
    IF keyType = "Bls12_381"
    THEN Throw("Cannot create a user using Bls12_381")
    ELSE IF len # 32 /\ keyType = "Ed25519"
    THEN Throw("Ed25519 pubkeys must be 32 length.")
    ELSE IF len # 33 /\ keyType = "Secp256k1"
    THEN Throw("Secp256k1 pubkeys must be 33 length.")
    ELSE Ok(Big(<<0>>))

\* a fill mode mapping that falls back to LIMIT
fillModeToProtoFillModeOrLimit(x) ==
    IF x = 1 THEN Ok("POST_ONLY")
    ELSE IF x = 2 THEN Ok("IMMEDIATE_OR_CANCEL")
    ELSE IF x = 3 THEN Ok("FILL_OR_KILL")
    ELSE Ok("LIMIT")

\* types.ts: FillMode { Limit, PostOnly, ImmediateOrCancel, FillOrKill }
fillModeToProtoFillMode(x) ==
    IF x = 0 THEN Ok("LIMIT")
    ELSE IF x = 1 THEN Ok("POST_ONLY")
    ELSE IF x = 2 THEN Ok("IMMEDIATE_OR_CANCEL")
    ELSE IF x = 3 THEN Ok("FILL_OR_KILL")
    ELSE Throw("Invalid fill mode")

(***************************************************************************)
(* utils.ts: length-delimited framing.  Bytes are numbers 0..255.          *)
(***************************************************************************)
\* a length written as one byte, whatever its size
VarintOneByte(n) == <<n % 128>>

\* BinaryWriter.uint32: base-128 varint, least significant group first
RECURSIVE Varint(_)
Varint(n) ==
    IF n < 128 THEN <<n>> ELSE <<128 + (n % 128)>> \o Varint(n \div 128)

\* reading the length from its first byte alone
ReadVarintOneByte(bytes, pos, mul, acc) ==
    IF pos > Len(bytes) THEN [ok |-> FALSE, value |-> 0, pos |-> pos]
    ELSE [ok |-> TRUE, value |-> bytes[pos] % 128, pos |-> pos + 1]

\* BinaryReader.uint32 from position pos: the value and the position after
\* it, or no value when the buffer ends inside the varint
RECURSIVE ReadVarint(_, _, _, _)
ReadVarint(bytes, pos, mul, acc) ==
    IF pos > Len(bytes) THEN [ok |-> FALSE, value |-> 0, pos |-> pos]
    ELSE IF bytes[pos] < 128
    THEN [ok |-> TRUE, value |-> acc + bytes[pos] * mul, pos |-> pos + 1]
    ELSE ReadVarint(bytes, pos + 1, mul * 128, acc + (bytes[pos] - 128) * mul)

\* encodeLengthDelimited, given coder.encode(message).finish()
encodeLengthDelimited(encoded) ==
    IF Len(encoded) > MAX_PAYLOAD_SIZE
    THEN Throw("Encoded message size is greater than max payload size")
    ELSE Ok(Varint(Len(encoded)) \o encoded)

\* decodeLengthDelimited slicing from the start of the buffer
decodeLengthDelimitedFromStart(bytes) ==
    LET lengthReader == ReadVarint(bytes, 1, 1, 0)
    IN IF ~lengthReader.ok THEN Throw("RangeError: premature EOF")
       ELSE Ok(SubSeq(bytes, 1, lengthReader.value))

\* decodeLengthDelimited up to coder.decode: the bytes handed to the coder
decodeLengthDelimited(bytes) ==
    LET lengthReader == ReadVarint(bytes, 1, 1, 0)
        msgLength == lengthReader.value
        startsAt == lengthReader.pos - 1
    IN IF ~lengthReader.ok THEN Throw("RangeError: premature EOF")
       ELSE IF msgLength > MAX_PAYLOAD_SIZE
       THEN Throw("Encoded message size is greater than max payload size")
       ELSE IF startsAt + msgLength > Len(bytes)
       THEN Throw("Encoded message size is greater than remaining buffer size")
       ELSE Ok(SubSeq(bytes, startsAt + 1, startsAt + msgLength))

(***************************************************************************)
(* actions.ts: the two signing schemes.                                    *)
(***************************************************************************)
HexChar == <<"0", "1", "2", "3", "4", "5", "6", "7",
             "8", "9", "a", "b", "c", "d", "e", "f">>

HexVal(c) == (CHOOSE i \in 1..16 : HexChar[i] = c) - 1

\* ethers.hexlify of bytes: "0x" and two hex characters a byte
Hexlify(bytes) ==
    <<"0", "x">> \o
    [i \in 1..(2 * Len(bytes)) |->
        IF i % 2 = 1 THEN HexChar[(bytes[(i + 1) \div 2] \div 16) + 1]
        ELSE HexChar[(bytes[i \div 2] % 16) + 1]]

\* ethers.getBytes of a hex string
GetBytes(hex) ==
    IF Len(hex) < 2 \/ SubSeq(hex, 1, 2) # <<"0", "x">> \/ Len(hex) % 2 # 0
    THEN Throw("invalid BytesLike value")
    ELSE Ok([i \in 1..((Len(hex) - 2) \div 2) |->
               16 * HexVal(hex[2 * i + 1]) + HexVal(hex[2 * i + 2])])

\* String.prototype.slice(0, -n)
SliceOffEnd(str, n) == SubSeq(str, 1, Len(str) - n)

\* sessionSign once signFn(message) has returned signature
sessionSign(signature, message) == Ok(message \o signature)

\* walletSign without the slice, which keeps the recovery indicator
walletSignKeepingRecovery(signature, message) ==
    LET sig == GetBytes(signature)
    IN IF sig.status = "throw" THEN sig ELSE Ok(message \o sig.value)

\* walletSign once walletSignFn(message) has returned signature
walletSign(signature, message) ==
    LET sig == GetBytes(SliceOffEnd(signature, 2))
    IN IF sig.status = "throw" THEN sig ELSE Ok(message \o sig.value)

(***************************************************************************)
(* The generated protobuf coders (gen/nord, produced by                    *)
(* protoc-generate.sh): a message is written as its tag followed by its    *)
(* fields, an optional field as a presence byte and the value, a bigint    *)
(* as its length and digits.                                               *)
(***************************************************************************)
ActionCases ==
    <<"createSession", "revokeSession", "withdraw",
      "placeOrder", "cancelOrderById", "transfer">>

ReceiptCases ==
    <<"err", "createSessionResult", "revokeSessionResult", "withdrawResult",
      "placeOrderResult", "cancelOrderResult", "transferred">>

TagOf(cases, c) == CHOOSE i \in 1..Len(cases) : cases[i] = c

OptBytes(o) == IF o = None THEN <<0>> ELSE <<1, o[1]>>

BigBytes(b) == <<Len(b.mag)>> \o b.mag

BoolByte(b) == IF b THEN 1 ELSE 0

ProtoActionEncode(action) ==
    LET c == action.kind.case
        v == action.kind.value
    IN <<TagOf(ActionCases, c), action.currentTimestamp, action.nonce>> \o
       (IF c = "createSession"
        THEN <<v.userPubkey.len, v.blstPubkey.len>> \o BigBytes(v.expiryTimestamp)
        ELSE IF c = "revokeSession" THEN <<v.sessionId>>
        ELSE IF c = "withdraw"
        THEN <<v.sessionId, v.tokenId>> \o BigBytes(v.amount)
        ELSE IF c = "placeOrder"
        THEN <<v.sessionId>> \o OptBytes(v.senderAccountId)
             \o <<v.marketId, BoolByte(v.side = "BID"),
                  TagOf(<<"LIMIT", "POST_ONLY", "IMMEDIATE_OR_CANCEL",
                          "FILL_OR_KILL">>, v.fillMode),
                  BoolByte(v.isReduceOnly)>>
             \o BigBytes(v.price) \o BigBytes(v.size)
             \o BigBytes(v.quoteSize.lo) \o BigBytes(v.quoteSize.hi)
             \o OptBytes(v.clientOrderId) \o OptBytes(v.delegatorAccountId)
        ELSE IF c = "cancelOrderById"
        THEN <<v.orderId, v.sessionId>> \o OptBytes(v.senderAccountId)
             \o OptBytes(v.delegatorAccountId)
        ELSE <<v.sessionId, v.fromAccountId>> \o OptBytes(v.toAccountId)
             \o <<v.tokenId>> \o BigBytes(v.amount))

\* the byte at position pos, 0 past the end of the message
ByteAt(bytes, pos) == IF pos \in 1..Len(bytes) THEN bytes[pos] ELSE 0

\* the readers of the fields written by BigBytes and OptBytes: the value
\* and the position after it
ReadBig(bytes, pos) ==
    LET end == IF pos + ByteAt(bytes, pos) > Len(bytes) THEN Len(bytes)
               ELSE pos + ByteAt(bytes, pos)
    IN [value |-> Big(IF pos + 1 > end THEN <<0>>
                      ELSE SubSeq(bytes, pos + 1, end)),
        pos |-> end + 1]

ReadOpt(bytes, pos) ==
    IF ByteAt(bytes, pos) = 0 THEN [value |-> None, pos |-> pos + 1]
    ELSE [value |-> Some(ByteAt(bytes, pos + 1)), pos |-> pos + 2]

FillModeNames == <<"LIMIT", "POST_ONLY", "IMMEDIATE_OR_CANCEL", "FILL_OR_KILL">>

\* a message without a known case decodes to an action whose kind is
\* undefined
ProtoActionDecode(bytes) ==
    LET c == IF ByteAt(bytes, 1) \in 1..Len(ActionCases)
             THEN ActionCases[bytes[1]] ELSE "undefined"
        Action(value) ==
            [currentTimestamp |-> ByteAt(bytes, 2), nonce |-> ByteAt(bytes, 3),
             kind |-> [case |-> c, value |-> value]]
        PlaceOrderTail(sender, p, price, size, lo, hi) ==
            Action([sessionId |-> ByteAt(bytes, 4),
                    senderAccountId |-> sender,
                    marketId |-> ByteAt(bytes, p),
                    side |-> IF ByteAt(bytes, p + 1) = 1 THEN "BID" ELSE "ASK",
                    fillMode |-> IF ByteAt(bytes, p + 2) \in 1..Len(FillModeNames)
                                 THEN FillModeNames[bytes[p + 2]]
                                 ELSE "UNRECOGNIZED",
                    isReduceOnly |-> ByteAt(bytes, p + 3) = 1,
                    price |-> price,
                    size |-> size,
                    quoteSize |-> [lo |-> lo, hi |-> hi.value],
                    clientOrderId |-> ReadOpt(bytes, hi.pos).value,
                    delegatorAccountId |->
                        ReadOpt(bytes, ReadOpt(bytes, hi.pos).pos).value])
        PlaceOrderBigs(sender, p, price) ==
            LET Sizes(size) ==
                    LET Quote(lo) ==
                            PlaceOrderTail(sender, p, price.value, size.value,
                                           lo.value, ReadBig(bytes, lo.pos))
                    IN Quote(ReadBig(bytes, size.pos))
            IN Sizes(ReadBig(bytes, price.pos))
        PlaceOrder(sender) ==
            PlaceOrderBigs(sender.value, sender.pos,
                           ReadBig(bytes, sender.pos + 4))
        CancelOrder(sender) ==
            Action([orderId |-> ByteAt(bytes, 4),
                    sessionId |-> ByteAt(bytes, 5),
                    senderAccountId |-> sender.value,
                    delegatorAccountId |-> ReadOpt(bytes, sender.pos).value])
        Transfer(to) ==
            Action([sessionId |-> ByteAt(bytes, 4),
                    fromAccountId |-> ByteAt(bytes, 5),
                    toAccountId |-> to.value,
                    tokenId |-> ByteAt(bytes, to.pos),
                    amount |-> ReadBig(bytes, to.pos + 1).value])
    IN IF c = "createSession"
       THEN Action([userPubkey |-> Key(ByteAt(bytes, 4)),
                    blstPubkey |-> Key(ByteAt(bytes, 5)),
                    expiryTimestamp |-> ReadBig(bytes, 6).value])
       ELSE IF c = "revokeSession" THEN Action([sessionId |-> ByteAt(bytes, 4)])
       ELSE IF c = "withdraw"
       THEN Action([sessionId |-> ByteAt(bytes, 4), tokenId |-> ByteAt(bytes, 5),
                    amount |-> ReadBig(bytes, 6).value])
       ELSE IF c = "placeOrder" THEN PlaceOrder(ReadOpt(bytes, 5))
       ELSE IF c = "cancelOrderById" THEN CancelOrder(ReadOpt(bytes, 6))
       ELSE IF c = "transfer" THEN Transfer(ReadOpt(bytes, 6))
       ELSE Action([sessionId |-> 0])

\* A receipt: its case and two fields.  err: a is the error code.
\* createSessionResult: a is the session id.  placeOrderResult: a is 1 when
\* posted is present, b its order id.  cancelOrderResult: a is the order
\* id.  transferred: a is 1 when accountCreated, b is toAccountId.
Receipt(case, a, b) == [case |-> case, a |-> a, b |-> b]

ProtoReceiptEncode(r) == <<TagOf(ReceiptCases, r.case), r.a, r.b>>

\* a message without a known case decodes to a receipt whose kind is
\* undefined
ProtoReceiptDecode(bytes) ==
    IF Len(bytes) = 3 /\ bytes[1] \in 1..Len(ReceiptCases)
    THEN Receipt(ReceiptCases[bytes[1]], bytes[2], bytes[3])
    ELSE Receipt("undefined", 0, 0)

(***************************************************************************)
(* actions.ts: promises, sendAction and the six Impl functions.            *)
(***************************************************************************)
Pending == [state |-> "pending", value |-> None, error |-> "", reason |-> <<>>]

Fulfilled(v) == [state |-> "fulfilled", value |-> v, error |-> "", reason |-> <<>>]

\* a promise rejected with an Error: its message, and the error name the
\* message ends with when the server reported one
Rejected(msg, reason) ==
    [state |-> "rejected", value |-> None, error |-> msg, reason |-> reason]

\* proto.errorToJSON: the name of an error code, written as its numeral
errorToJSON(code) == ToChars(IntDigits(code))

\* the actionErrorDesc each Impl function hands to sendAction
ActionErrorDesc(case) ==
    IF case = "createSession" THEN "Could not create a new session"
    ELSE IF case = "revokeSession" THEN "Could not create a new session"
    ELSE IF case = "withdraw" THEN "Could not withdraw"
    ELSE IF case = "placeOrder" THEN "Could not place the order"
    ELSE IF case = "cancelOrderById" THEN "Could not cancel the order"
    ELSE "Could not transfer asset to other account"

\* which capability each Impl function hands to sendAction
SignerOf(case) ==
    IF case = "createSession" THEN "wallet"
    ELSE IF case = "revokeSession" THEN "wallet"
    ELSE "session"

\* sendAction without the test for an err receipt
sendActionResponseWithoutErr(rawResp, actionErrorDesc) ==
    LET framed == decodeLengthDelimited(rawResp)
    IN IF framed.status = "throw" THEN Rejected(framed.error, <<>>)
       ELSE Fulfilled(Some(ProtoReceiptDecode(framed.value)))

\* sendAction after sendFn has returned: the receipt, or the error thrown
sendActionResponse(rawResp, actionErrorDesc) ==
    LET framed == decodeLengthDelimited(rawResp)
        resp == ProtoReceiptDecode(framed.value)
    IN IF framed.status = "throw" THEN Rejected(framed.error, <<>>)
       ELSE IF resp.case = "err"
       THEN Rejected(actionErrorDesc, errorToJSON(resp.a))
       ELSE Fulfilled(Some(resp))

UnexpectedReceiptKind == Rejected("Unexpected receipt kind", <<>>)

\* Impl functions of which transferImpl returns toAccountId of any
\* transferred receipt
ImplResultAnyAccount(case, resp) ==
    IF case = "createSession"
    THEN (IF resp.case = "createSessionResult" THEN Fulfilled(Some(resp.a))
          ELSE UnexpectedReceiptKind)
    ELSE IF case = "revokeSession" THEN Fulfilled(None)
    ELSE IF case = "withdraw" THEN Fulfilled(None)
    ELSE IF case = "placeOrder"
    THEN (IF resp.case = "placeOrderResult"
          THEN Fulfilled(IF resp.a = 1 THEN Some(resp.b) ELSE None)
          ELSE UnexpectedReceiptKind)
    ELSE IF case = "cancelOrderById"
    THEN (IF resp.case = "cancelOrderResult" THEN Fulfilled(Some(resp.a))
          ELSE UnexpectedReceiptKind)
    ELSE (IF resp.case = "transferred" THEN Fulfilled(Some(resp.b))
          ELSE UnexpectedReceiptKind)

\* what each Impl function does with the receipt sendAction returned
ImplResult(case, resp) ==
    IF case = "createSession"
    THEN (IF resp.case = "createSessionResult" THEN Fulfilled(Some(resp.a))
          ELSE UnexpectedReceiptKind)
    ELSE IF case = "revokeSession" THEN Fulfilled(None)
    ELSE IF case = "withdraw" THEN Fulfilled(None)
    ELSE IF case = "placeOrder"
    THEN (IF resp.case = "placeOrderResult"
          THEN Fulfilled(IF resp.a = 1 THEN Some(resp.b) ELSE None)
          ELSE UnexpectedReceiptKind)
    ELSE IF case = "cancelOrderById"
    THEN (IF resp.case = "cancelOrderResult" THEN Fulfilled(Some(resp.a))
          ELSE UnexpectedReceiptKind)
    ELSE (IF resp.case = "transferred"
          THEN Fulfilled(IF resp.a = 1 THEN Some(resp.b) ELSE None)
          ELSE UnexpectedReceiptKind)

MakeAction(currentTimestamp, nonce, case, value) ==
    Ok([currentTimestamp |-> currentTimestamp, nonce |-> nonce,
        kind |-> [case |-> case, value |-> value]])

\* value ?? 1 for a Decimal.Value
OrOne(o) == IF o = None THEN <<"1">> ELSE o[1]

\* value ?? 0 for a Decimal.Value
OrZero(o) == IF o = None THEN <<"0">> ELSE o[1]

\* createSessionImpl without the check of the supplied expiry
createSessionActionAnyExpiry(currentTimestamp, nonce, params) ==
    LET c1 == checkPubKeyLength("Secp256k1", params.userPubkey.len)
        c2 == checkPubKeyLength("Ed25519", params.sessionPubkey.len)
    IN IF c1.status = "throw" THEN c1
       ELSE IF c2.status = "throw" THEN c2
       ELSE MakeAction(currentTimestamp, nonce, "createSession",
                       [userPubkey |-> params.userPubkey,
                        blstPubkey |-> params.sessionPubkey,
                        expiryTimestamp |->
                            IF params.expiryTimestamp # None
                            THEN params.expiryTimestamp[1]
                            ELSE BigAdd(BigOfInt(currentTimestamp), SESSION_TTL)])

createSessionAction(currentTimestamp, nonce, params) ==
    LET c1 == checkPubKeyLength("Secp256k1", params.userPubkey.len)
        c2 == checkPubKeyLength("Ed25519", params.sessionPubkey.len)
        expiry == IF params.expiryTimestamp # None
                  THEN params.expiryTimestamp[1]
                  ELSE BigAdd(BigOfInt(currentTimestamp), SESSION_TTL)
    IN IF c1.status = "throw" THEN c1
       ELSE IF c2.status = "throw" THEN c2
       ELSE IF params.expiryTimestamp # None
               /\ ~BigLess(BigOfInt(currentTimestamp), expiry)
       THEN Throw("Cannot set expiry timestamp in the past")
       ELSE MakeAction(currentTimestamp, nonce, "createSession",
                       [userPubkey |-> params.userPubkey,
                        blstPubkey |-> params.sessionPubkey,
                        expiryTimestamp |-> expiry])

revokeSessionAction(currentTimestamp, nonce, params) ==
    MakeAction(currentTimestamp, nonce, "revokeSession",
               [sessionId |-> params.sessionId])

\* withdrawImpl without the check of the scaled amount
withdrawActionUnchecked(currentTimestamp, nonce, params) ==
    LET Build(amount) ==
            IF amount.status = "throw" THEN amount
            ELSE MakeAction(currentTimestamp, nonce, "withdraw",
                            [sessionId |-> params.sessionId,
                             tokenId |-> params.tokenId,
                             amount |-> amount.value])
    IN Build(toScaledU64(params.amount, params.sizeDecimals))

withdrawAction(currentTimestamp, nonce, params) ==
    LET Build(amount) ==
            IF amount.status = "throw" THEN amount
            ELSE IF ~BigLess(Big(<<0>>), amount.value)
            THEN Throw("Withdraw amount must be positive")
            ELSE MakeAction(currentTimestamp, nonce, "withdraw",
                            [sessionId |-> params.sessionId,
                             tokenId |-> params.tokenId,
                             amount |-> amount.value])
    IN Build(toScaledU64(params.amount, params.sizeDecimals))

placeOrderAction(currentTimestamp, nonce, params) ==
    LET Compose(price, size, fillMode, quoteSize) ==
            IF quoteSize.status = "throw" THEN quoteSize
            ELSE MakeAction(currentTimestamp, nonce, "placeOrder",
                       [sessionId |-> params.sessionId,
                        senderAccountId |-> params.senderId,
                        marketId |-> params.marketId,
                        side |-> IF params.side = "Bid" THEN "BID" ELSE "ASK",
                        fillMode |-> fillMode.value,
                        isReduceOnly |-> params.isReduceOnly,
                        price |-> price.value,
                        size |-> size.value,
                        quoteSize |-> quoteSize.value,
                        clientOrderId |-> params.clientOrderId,
                        delegatorAccountId |-> params.liquidateeId])
        Build(price, size, quoteSize, fillMode) ==
            IF price.status = "throw" THEN price
            ELSE IF size.status = "throw" THEN size
            ELSE IF quoteSize.status = "throw" THEN quoteSize
            ELSE IF fillMode.status = "throw" THEN fillMode
            ELSE Compose(price, size, fillMode,
                         bigIntToProtoU128(quoteSize.value))
    IN Build(toScaledU64(OrZero(params.price), params.priceDecimals),
             toScaledU64(OrZero(params.size), params.sizeDecimals),
             toScaledU128(OrZero(params.quoteSize),
                          params.priceDecimals + params.sizeDecimals),
             fillModeToProtoFillMode(params.fillMode))

cancelOrderAction(currentTimestamp, nonce, params) ==
    MakeAction(currentTimestamp, nonce, "cancelOrderById",
               [orderId |-> params.orderId,
                sessionId |-> params.sessionId,
                senderAccountId |-> params.senderId,
                delegatorAccountId |-> params.liquidateeId])

transferAction(currentTimestamp, nonce, params) ==
    LET Build(amount) ==
            IF amount.status = "throw" THEN amount
            ELSE MakeAction(currentTimestamp, nonce, "transfer",
                            [sessionId |-> params.sessionId,
                             fromAccountId |-> params.fromAccountId,
                             toAccountId |-> params.toAccountId,
                             tokenId |-> params.tokenId,
                             amount |-> amount.value])
    IN Build(toScaledU64(params.amount, params.tokenDecimals))

(***************************************************************************)
(* The conversions under check: a decimal literal x, a number of decimal   *)
(* digits, and the result of toScaledU64 or toScaledU128 on them.          *)
(***************************************************************************)
IntParts ==
    {<<0>>, <<1>>, <<1, 2, 3, 4, 5>>,
     DigitsDec(U64MaxDigits), U64MaxDigits, DigitsInc(U64MaxDigits),
     U128MaxDigits, DigitsInc(U128MaxDigits)}

\* <<d, n>>: n further digits d after the integer part
FracTails == {<<0, 0>>} \cup ({4, 5, 9} \X {1, 21, 41})

\* the literal of mantissa m divided by 10^scale
Literal(neg, m, scale) ==
    (IF neg THEN <<"-">> ELSE <<>>) \o
    (IF scale = 0 THEN ToChars(m)
     ELSE IF scale < Len(m)
     THEN ToChars(SubSeq(m, 1, Len(m) - scale)) \o <<".">>
          \o ToChars(SubSeq(m, Len(m) - scale + 1, Len(m)))
     ELSE <<"0", ".">> \o ToChars(Zeros(scale - Len(m)) \o m))

DecimalValues ==
    {Literal(neg, StripLeading(i \o Rep(t[1], t[2])), t[2] + k) :
        neg \in BOOLEAN, i \in IntParts, t \in FracTails, k \in 0..MaxShift}

NoResult == [status |-> "none", value |-> Big(<<0>>), error |-> ""]

ConvInit ==
    conv \in [x : DecimalValues, decimals : 0..MaxDecimals,
              bits : {0}, result : {NoResult}]

ToScaledU64Call ==
    /\ conv.bits = 0
    /\ conv' = [conv EXCEPT !.bits = 64,
                            !.result = toScaledU64(conv.x, conv.decimals)]
    /\ UNCHANGED <<now, users, arrays, calls>>

ToScaledU128Call ==
    /\ conv.bits = 0
    /\ conv' = [conv EXCEPT !.bits = 128,
                            !.result = toScaledU128(conv.x, conv.decimals)]
    /\ UNCHANGED <<now, users, arrays, calls>>

IdleConv == [x |-> <<"0">>, decimals |-> 0, bits |-> 0, result |-> NoResult]

InitScaled ==
    /\ ConvInit
    /\ now = 0
    /\ users = <<>>
    /\ arrays = <<>>
    /\ calls = <<>>

NextScaled == ToScaledU64Call \/ ToScaledU128Call

SpecScaled == InitScaled /\ [][NextScaled]_vars

(***************************************************************************)
(* bigIntToProtoU128 under check: a bigint built from two words around     *)
(* the ends of the 64-bit range, of either sign, and the result of the     *)
(* call on it.                                                             *)
(***************************************************************************)
MaxWord == 3

Words ==
    {IntDigits(k) : k \in 0..MaxWord}
        \cup {DigitsSub(U64MaxDigits, IntDigits(k)) : k \in 0..MaxWord}

HiWords == Words \cup {BigShiftLeftOne(64), DigitsInc(BigShiftLeftOne(64))}

BigIntValues ==
    {[neg |-> n /\ (h # <<0>> \/ l # <<0>>),
      mag |-> DigitsAdd(DigitsMul(h, BigShiftLeftOne(64)), l)] :
        n \in BOOLEAN, h \in HiWords, l \in Words}

InitSplit ==
    /\ conv \in [value : BigIntValues, called : {FALSE}, result : {NoResult}]
    /\ now = 0
    /\ users = <<>>
    /\ arrays = <<>>
    /\ calls = <<>>

BigIntToProtoU128Call ==
    /\ ~conv.called
    /\ conv' = [conv EXCEPT !.called = TRUE,
                            !.result = bigIntToProtoU128(conv.value)]
    /\ UNCHANGED <<now, users, arrays, calls>>

NextSplit == BigIntToProtoU128Call

SpecSplit == InitSplit /\ [][NextSplit]_vars

(***************************************************************************)
(* The framing under check: a serialized message is framed by              *)
(* encodeLengthDelimited, and a buffer (the frame, the frame with bytes    *)
(* added or removed, or the payload behind another declared length) is     *)
(* read back by decodeLengthDelimited and the coder.                       *)
(***************************************************************************)
MaxSlack == 1

MaxTrailing == 2

OptionalIds == {None, Some(7)}

ProtoActions ==
    {MakeAction(1, 0, "createSession",
                [userPubkey |-> Key(33), blstPubkey |-> Key(32),
                 expiryTimestamp |-> e]).value :
        e \in {Big(<<2>>), BigAdd(BigOfInt(1), SESSION_TTL)}}
    \cup {MakeAction(1700000000, 1, "revokeSession", [sessionId |-> 42]).value}
    \cup {MakeAction(0, 0, "withdraw",
                     [sessionId |-> 42, tokenId |-> 1, amount |-> a]).value :
             a \in {Big(<<1>>), Big(U64MaxDigits)}}
    \cup {MakeAction(0, 0, "placeOrder",
                     [sessionId |-> 42, senderAccountId |-> sender,
                      marketId |-> 9, side |-> side, fillMode |-> "LIMIT",
                      isReduceOnly |-> FALSE, price |-> Big(<<1, 2>>),
                      size |-> Big(<<3, 9>>),
                      quoteSize |-> [lo |-> lo, hi |-> Big(<<5, 5>>)],
                      clientOrderId |-> clientOrderId,
                      delegatorAccountId |-> delegator]).value :
             sender \in OptionalIds, clientOrderId \in {None, Some(350)},
             delegator \in OptionalIds, side \in {"ASK", "BID"},
             lo \in {Big(<<5, 4>>), Big(U64MaxDigits)}}
    \cup {MakeAction(1, 1, "cancelOrderById",
                     [orderId |-> 5, sessionId |-> 42,
                      senderAccountId |-> sender,
                      delegatorAccountId |-> delegator]).value :
             sender \in OptionalIds, delegator \in OptionalIds}
    \cup {MakeAction(1, 2, "transfer",
                     [sessionId |-> 42, fromAccountId |-> 0,
                      toAccountId |-> to, tokenId |-> 1,
                      amount |-> Big(<<1, 0, 0>>)]).value :
             to \in OptionalIds}

\* payload sizes around the one-byte and two-byte length prefixes and
\* around the size cap
PayloadLengths ==
    {b + d : b \in {0, 128, 16384, MAX_PAYLOAD_SIZE}, d \in -MaxSlack..MaxSlack}
        \cap Nat

Trailings == {Rep(9, k) : k \in 0..MaxTrailing}

NoBytes == [status |-> "none", value |-> <<>>, error |-> ""]

FrameConv(message, payload) ==
    [message |-> message, payload |-> payload, stage |-> "new",
     frame |-> NoBytes, buffer |-> <<>>, decoded |-> NoBytes,
     decodedMessage |-> None]

InitFrame ==
    /\ \/ \E action \in ProtoActions :
             conv = FrameConv(Some(action), ProtoActionEncode(action))
       \/ \E n \in PayloadLengths : conv = FrameConv(None, Rep(7, n))
    /\ now = 0
    /\ users = <<>>
    /\ arrays = <<>>
    /\ calls = <<>>

EncodeLengthDelimitedCall ==
    /\ conv.stage = "new"
    /\ conv' = [conv EXCEPT !.stage = "encoded",
                            !.frame = encodeLengthDelimited(conv.payload)]
    /\ UNCHANGED <<now, users, arrays, calls>>

\* the buffers handed to decodeLengthDelimited
BuffersOf(c) ==
    (IF c.frame.status = "ok"
     THEN {c.frame.value \o t : t \in Trailings}
              \cup {SubSeq(c.frame.value, 1, Len(c.frame.value) - 1)}
     ELSE {})
    \cup {Varint(n) \o c.payload \o t :
             n \in {Len(c.payload), Len(c.payload) + 1, MAX_PAYLOAD_SIZE + 1},
             t \in Trailings}

DecodeLengthDelimitedCall ==
    /\ conv.stage = "encoded"
    /\ \E buffer \in BuffersOf(conv) :
          LET Finish(decoded) ==
                  [conv EXCEPT
                     !.stage = "decoded",
                     !.buffer = buffer,
                     !.decoded = decoded,
                     !.decodedMessage =
                         IF conv.message # None /\ decoded.status = "ok"
                         THEN Some(ProtoActionDecode(decoded.value))
                         ELSE None]
          IN conv' = Finish(decodeLengthDelimited(buffer))
    /\ UNCHANGED <<now, users, arrays, calls>>

NextFrame == EncodeLengthDelimitedCall \/ DecodeLengthDelimitedCall

SpecFrame == InitFrame /\ [][NextFrame]_vars

(***************************************************************************)
(* An action call.  `reached` tells how far the call got before its first  *)
(* suspension: "method" when a NordUser method threw before it read the    *)
(* clock, "args" when it threw after getNonce while it evaluated the       *)
(* parameters, "impl" when the Impl function was entered.  `inner` is the  *)
(* promise of the Impl function, `outer` the promise handed to the caller. *)
(***************************************************************************)
NoPromise == [state |-> "none", value |-> None, error |-> "", reason |-> <<>>]

\* an Impl function that went on to sendAction after its validation threw
ImplStartAfterThrow(case, currentTimestamp, nonce, built) ==
    [case |-> case, currentTimestamp |-> currentTimestamp, nonce |-> nonce,
     stage |-> "signing", encoded |-> <<>>, signer |-> SignerOf(case),
     inner |-> IF built.status = "throw" THEN Rejected(built.error, <<>>)
               ELSE Pending]

\* an Impl function up to its first await, given the action it built or the
\* error it threw: the action is encoded and sendAction waits for the
\* signature, or the promise is rejected
ImplStart(case, currentTimestamp, nonce, built) ==
    LET Start(encoded) ==
            [case |-> case,
             currentTimestamp |-> currentTimestamp,
             nonce |-> nonce,
             stage |-> IF encoded.status = "throw" THEN "done" ELSE "signing",
             encoded |-> IF encoded.status = "throw" THEN <<>>
                         ELSE encoded.value,
             signer |-> IF encoded.status = "throw" THEN "none"
                        ELSE SignerOf(case),
             inner |-> IF encoded.status = "throw"
                       THEN Rejected(encoded.error, <<>>) ELSE Pending]
    IN Start(IF built.status = "throw" THEN built
             ELSE encodeLengthDelimited(ProtoActionEncode(built.value)))

createSessionImpl(currentTimestamp, nonce, params) ==
    ImplStart("createSession", currentTimestamp, nonce,
              createSessionAction(currentTimestamp, nonce, params))

revokeSessionImpl(currentTimestamp, nonce, params) ==
    ImplStart("revokeSession", currentTimestamp, nonce,
              revokeSessionAction(currentTimestamp, nonce, params))

withdrawImpl(currentTimestamp, nonce, params) ==
    ImplStart("withdraw", currentTimestamp, nonce,
              withdrawAction(currentTimestamp, nonce, params))

placeOrderImpl(currentTimestamp, nonce, params) ==
    ImplStart("placeOrder", currentTimestamp, nonce,
              placeOrderAction(currentTimestamp, nonce, params))

cancelOrderImpl(currentTimestamp, nonce, params) ==
    ImplStart("cancelOrderById", currentTimestamp, nonce,
              cancelOrderAction(currentTimestamp, nonce, params))

transferImpl(currentTimestamp, nonce, params) ==
    ImplStart("transfer", currentTimestamp, nonce,
              transferAction(currentTimestamp, nonce, params))

\* the promise of a NordUser method, given the promise of the Impl
\* function it called
OuterOf(method, inner) ==
    IF method = "withdraw" THEN Fulfilled(None)
    ELSE IF method \in {"refreshSession", "transferToAccount"}
    THEN (IF inner.state = "fulfilled" THEN Fulfilled(None) ELSE inner)
    ELSE IF method = "createAccount"
    THEN (IF inner.state = "fulfilled" /\ inner.value = None
          THEN Rejected("New account should have been created", <<>>)
          ELSE IF inner.state = "fulfilled" THEN Pending
          ELSE inner)
    ELSE inner

Call(user, method, tick, impl) ==
    [user |-> user, method |-> method, reached |-> "impl", tick |-> tick,
     case |-> impl.case, currentTimestamp |-> impl.currentTimestamp,
     nonce |-> impl.nonce, stage |-> impl.stage, encoded |-> impl.encoded,
     signer |-> impl.signer, walletSignature |-> <<>>,
     sessionSignature |-> <<>>, body |-> <<>>, sends |-> 0, resp |-> None,
     inner |-> impl.inner, outer |-> OuterOf(method, impl.inner),
     newUser |-> 0]

\* Date.now() / 1000, a number of seconds with its milliseconds
DateNowSeconds(ms) == [whole |-> ms \div 1000, frac |-> ms % 1000]

\* a method that threw before calling into actions.ts
ThrownCall(user, method, case, reached, tick, currentTimestamp, nonce, msg) ==
    [user |-> user, method |-> method, reached |-> reached, tick |-> tick,
     case |-> case, currentTimestamp |-> currentTimestamp,
     nonce |-> nonce, stage |-> "done", encoded |-> <<>>,
     signer |-> "none", walletSignature |-> <<>>,
     sessionSignature |-> <<>>, body |-> <<>>, sends |-> 0, resp |-> None,
     inner |-> NoPromise, outer |-> Rejected(msg, <<>>),
     newUser |-> 0]

(***************************************************************************)
(* sendAction after its awaits.                                            *)
(***************************************************************************)
\* what the wallet capability may return: "0x" hex strings whose last byte
\* is the recovery indicator
WalletSignatures == {Hexlify(<<10, 11, 27>>), Hexlify(<<200, 1, 28>>)}

\* what the session capability may return
SessionSignatures == {<<7, 8>>, <<9>>}

Receipts ==
    {Receipt("err", 3, 0), Receipt("err", 7, 0),
     Receipt("createSessionResult", 1, 0),
     Receipt("revokeSessionResult", 0, 0),
     Receipt("withdrawResult", 0, 0),
     Receipt("placeOrderResult", 1, 9), Receipt("placeOrderResult", 0, 0),
     Receipt("cancelOrderResult", 5, 0),
     Receipt("transferred", 1, 4), Receipt("transferred", 0, 0)}

Frame(r) == encodeLengthDelimited(ProtoReceiptEncode(r)).value

\* what the server may answer: a framed receipt, possibly followed by more
\* bytes, or a buffer that is cut short or declares too long a payload
Responses ==
    {Frame(r) : r \in Receipts}
        \cup {Frame(Receipt("withdrawResult", 0, 0)) \o <<0>>,
              <<>>, <<0>>, <<3, 1>>, Varint(MAX_PAYLOAD_SIZE + 1) \o <<1>>}

\* a NordUser keeps the capabilities and the server it was constructed with
WalletSignaturesOf(user) ==
    IF user = 0 THEN WalletSignatures ELSE {Hexlify(<<10, 11, 27>>)}

SessionSignaturesOf(user) ==
    IF user = 0 THEN SessionSignatures ELSE {<<7, 8>>}

ResponsesOf(user) ==
    IF user = 0 THEN Responses
    ELSE {Frame(r) : r \in {Receipt("err", 3, 0),
                            Receipt("createSessionResult", 1, 0),
                            Receipt("placeOrderResult", 1, 9),
                            Receipt("transferred", 1, 4),
                            Receipt("transferred", 0, 7)}}

Signing(i) == i \in 1..Len(calls) /\ calls[i].stage = "signing"

Sending(i) == i \in 1..Len(calls) /\ calls[i].stage = "sending"

\* the signing capability returns: sendAction builds the body and calls
\* sendFn with it
SignReturn(i) ==
    /\ Signing(i)
    /\ \E w \in WalletSignaturesOf(calls[i].user),
          s \in SessionSignaturesOf(calls[i].user) :
          LET c == calls[i]
              body == IF c.signer = "wallet" THEN walletSign(w, c.encoded)
                      ELSE sessionSign(s, c.encoded)
          IN calls' = [calls EXCEPT ![i] =
                 [c EXCEPT !.walletSignature =
                               IF c.signer = "wallet" THEN w ELSE <<>>,
                           !.sessionSignature =
                               IF c.signer = "session" THEN s ELSE <<>>,
                           !.body = body.value,
                           !.sends = @ + 1,
                           !.stage = "sending"]]
    /\ UNCHANGED <<conv, now, users, arrays>>

\* a submission that is attempted again when it has failed
SettleRetrying(c, inner) ==
    [c EXCEPT !.stage = IF inner.state = "rejected" THEN "signing" ELSE "done",
              !.inner = inner,
              !.outer = IF c.user = 0 THEN inner ELSE OuterOf(c.method, inner)]

\* a call settles with the promise `inner` of its Impl function
Settle(c, inner) ==
    [c EXCEPT !.stage = "done", !.inner = inner,
              !.outer = IF c.user = 0 THEN inner ELSE OuterOf(c.method, inner)]

\* the signing capability rejects
SignReject(i) ==
    /\ Signing(i)
    /\ calls' = [calls EXCEPT ![i] = Settle(@, Rejected("Signing failed", <<>>))]
    /\ UNCHANGED <<conv, now, users, arrays>>

\* sendFn rejects: the request failed
SendReject(i) ==
    /\ Sending(i)
    /\ calls' = [calls EXCEPT ![i] = Settle(@, Rejected("Request failed", <<>>))]
    /\ UNCHANGED <<conv, now, users, arrays>>

\* a clone that gets a list of its own, undefined
cloneWithoutAccountIds(user) ==
    [publicKey |-> user.publicKey, sessionId |-> user.sessionId,
     accountIds |-> 0, lastTs |-> user.lastTs,
     lastNonce |-> user.lastNonce, balances |-> {}]

\* a clone that keeps the counter the constructor set
cloneWithFreshCounter(user) ==
    [publicKey |-> user.publicKey, sessionId |-> user.sessionId,
     accountIds |-> user.accountIds, lastTs |-> DateNowSeconds(0),
     lastNonce |-> 0, balances |-> {}]

\* NordUser.clone
clone(user) ==
    [publicKey |-> user.publicKey, sessionId |-> user.sessionId,
     accountIds |-> user.accountIds, lastTs |-> user.lastTs,
     lastNonce |-> user.lastNonce, balances |-> {}]

\* the receipt sendAction decoded, if it got that far
Decoded(framed) ==
    IF framed.status = "ok" THEN Some(ProtoReceiptDecode(framed.value))
    ELSE None

\* sendFn returns: sendAction decodes the response and the Impl function
\* maps the receipt; then the NordUser method that awaited it goes on
SendReturn(i) ==
    /\ Sending(i)
    /\ \E rawResp \in ResponsesOf(calls[i].user) :
          LET c == calls[i]
              Finish(sent) ==
                  IF sent.state = "rejected" THEN sent
                  ELSE ImplResult(c.case, sent.value[1])
              inner == Finish(sendActionResponse(rawResp,
                                                 ActionErrorDesc(c.case)))
              done == [Settle(c, inner) EXCEPT
                          !.resp = Decoded(decodeLengthDelimited(rawResp))]
              created == c.method = "createAccount"
                         /\ inner.state = "fulfilled" /\ inner.value # None
              ref == users[c.user].accountIds
          IN IF created
             THEN /\ users' = Append(users, clone(users[c.user]))
                  /\ arrays' = IF ref = 0 THEN arrays
                               ELSE [arrays EXCEPT ![ref] =
                                        Append(@, inner.value[1])]
                  /\ calls' = [calls EXCEPT ![i] =
                        [done EXCEPT !.newUser = Len(users) + 1,
                                     !.stage = IF ref = 0 THEN "done"
                                               ELSE "fetching",
                                     !.outer = IF ref = 0
                                               THEN Fulfilled(Some(Len(users) + 1))
                                               ELSE Pending]]
             ELSE /\ users' = IF c.method = "refreshSession"
                                 /\ inner.state = "fulfilled"
                              THEN [users EXCEPT ![c.user].sessionId = inner.value]
                              ELSE users
                  /\ arrays' = arrays
                  /\ calls' = [calls EXCEPT ![i] = done]
    /\ UNCHANGED <<conv, now>>

Fetching(i) == i \in 1..Len(calls) /\ calls[i].stage = "fetching"

\* createAccount: newUser.fetchInfo() has fetched every account
FetchReturn(i) ==
    /\ Fetching(i)
    /\ LET c == calls[i]
           ids == arrays[users[c.newUser].accountIds]
       IN /\ users' = [users EXCEPT ![c.newUser].balances =
                           @ \cup {ids[k] : k \in 1..Len(ids)}]
          /\ calls' = [calls EXCEPT ![i] =
                 [c EXCEPT !.stage = "done",
                           !.outer = Fulfilled(Some(c.newUser))]]
    /\ UNCHANGED <<conv, now, arrays>>

\* createAccount: one of the fetches of newUser.fetchInfo() failed
FetchReject(i) ==
    /\ Fetching(i)
    /\ calls' = [calls EXCEPT ![i] =
           [@ EXCEPT !.stage = "done",
                     !.outer = Rejected("Request failed", <<>>)]]
    /\ UNCHANGED <<conv, now, users, arrays>>

(***************************************************************************)
(* The six functions exported by actions.ts, called directly.              *)
(***************************************************************************)
Dec(m, scale) == Literal(FALSE, m, scale)

\* a call of an exported function: its promise is the Impl function's
DirectCall(impl) == Call(0, "direct", DateNowSeconds(0), impl)

Timestamps == {1, 1700000000}

Nonces == {0, 1}

createSession ==
    \E currentTimestamp \in Timestamps, nonce \in Nonces,
       userPubkey \in {Key(33), Key(32)}, sessionPubkey \in {Key(32), Key(33)},
       expiryTimestamp \in {None, Some(BigOfInt(1)), Some(BigOfInt(2)),
                            Some(BigOfInt(1700000001))} :
        /\ calls = <<>>
        /\ calls' = <<DirectCall(createSessionImpl(currentTimestamp, nonce,
                      [userPubkey |-> userPubkey, sessionPubkey |-> sessionPubkey,
                       expiryTimestamp |-> expiryTimestamp]))>>
        /\ UNCHANGED <<conv, now, users, arrays>>

revokeSession ==
    \E currentTimestamp \in Timestamps, nonce \in Nonces, sessionId \in {1, 2} :
        /\ calls = <<>>
        /\ calls' = <<DirectCall(revokeSessionImpl(currentTimestamp, nonce,
                      [sessionId |-> sessionId]))>>
        /\ UNCHANGED <<conv, now, users, arrays>>

withdraw ==
    \E currentTimestamp \in Timestamps, nonce \in Nonces,
       amount \in {Dec(<<0>>, 0), Literal(TRUE, <<1>>, 0), Dec(<<1, 5>>, 1),
                   Dec(<<1>>, 3), Dec(DigitsInc(U64MaxDigits), 0)},
       sizeDecimals \in {0, 2} :
        /\ calls = <<>>
        /\ calls' = <<DirectCall(withdrawImpl(currentTimestamp, nonce,
                      [sizeDecimals |-> sizeDecimals, sessionId |-> 1,
                       tokenId |-> 0, amount |-> amount]))>>
        /\ UNCHANGED <<conv, now, users, arrays>>

placeOrder ==
    \E currentTimestamp \in Timestamps, nonce \in Nonces,
       price \in {None, Some(Dec(<<1>>, 0)), Some(Literal(TRUE, <<1>>, 0))},
       size \in {None, Some(Dec(<<1>>, 0)), Some(Dec(<<1>>, 7))},
       quoteSize \in {None, Some(Dec(<<1>>, 0)),
                      Some(Dec(DigitsInc(U128MaxDigits), 0))},
       fillMode \in {0, 1, 2, 3, 4}, side \in {"Bid", "Ask"} :
        /\ calls = <<>>
        /\ calls' = <<DirectCall(placeOrderImpl(currentTimestamp, nonce,
                      [sessionId |-> 1, senderId |-> None, liquidateeId |-> None,
                       sizeDecimals |-> 6, priceDecimals |-> 2, marketId |-> 0,
                       side |-> side, fillMode |-> fillMode,
                       isReduceOnly |-> FALSE, size |-> size, price |-> price,
                       quoteSize |-> quoteSize, clientOrderId |-> None]))>>
        /\ UNCHANGED <<conv, now, users, arrays>>

cancelOrder ==
    \E currentTimestamp \in Timestamps, nonce \in Nonces,
       senderId \in {None, Some(0)}, liquidateeId \in {None, Some(2)} :
        /\ calls = <<>>
        /\ calls' = <<DirectCall(cancelOrderImpl(currentTimestamp, nonce,
                      [sessionId |-> 1, senderId |-> senderId, orderId |-> 5,
                       liquidateeId |-> liquidateeId]))>>
        /\ UNCHANGED <<conv, now, users, arrays>>

transfer ==
    \E currentTimestamp \in Timestamps, nonce \in Nonces,
       amount \in {Dec(<<0>>, 0), Literal(TRUE, <<1>>, 0), Dec(<<1>>, 0),
                   Dec(<<1>>, 3)},
       toAccountId \in {None, Some(1)} :
        /\ calls = <<>>
        /\ calls' = <<DirectCall(transferImpl(currentTimestamp, nonce,
                      [sessionId |-> 1, fromAccountId |-> 0,
                       toAccountId |-> toAccountId, tokenId |-> 0,
                       tokenDecimals |-> 2, amount |-> amount]))>>
        /\ UNCHANGED <<conv, now, users, arrays>>

(***************************************************************************)
(* NordUser: the clock, the nonce counter and the action methods.          *)
(***************************************************************************)
\* DefaultNordImpl.getTimestamp: BigInt(Math.floor(Date.now() / 1000))
getTimestamp(ms) == DateNowSeconds(ms).whole

\* getNonce run twice in a row
getNonceTwice(user, ms) ==
    LET ts == DateNowSeconds(ms)
        once == IF ts = user.lastTs THEN [user EXCEPT !.lastNonce = @ + 1]
                ELSE [user EXCEPT !.lastTs = ts, !.lastNonce = 0]
    IN [once EXCEPT !.lastNonce = @ + 1]

\* getNonce without the increment
getNonceWithoutIncrement(user, ms) ==
    [user EXCEPT !.lastTs = DateNowSeconds(ms), !.lastNonce = 0]

\* NordUser.getNonce with Date.now() = ms: the user afterwards, whose
\* lastNonce is the value returned
getNonce(user, ms) ==
    LET ts == DateNowSeconds(ms)
    IN IF ts = user.lastTs
       THEN [user EXCEPT !.lastNonce = @ + 1]
       ELSE [user EXCEPT !.lastTs = ts, !.lastNonce = 0]

\* optExpect that lets a missing session pass
optExpectSessionOptional(value, message) ==
    IF value = None /\ message # "No session" THEN Throw(message)
    ELSE Ok(IF value = None THEN 0 ELSE value[1])

optExpect(value, message) ==
    IF value = None THEN Throw(message) ELSE Ok(value[1])

findMarket(markets, marketId) ==
    IF marketId < 0 \/ Len(markets) - 1 < marketId
    THEN Throw("The market not found")
    ELSE Ok(markets[marketId + 1])

findToken(tokens, tokenId) ==
    IF tokenId < 0 \/ Len(tokens) - 1 < tokenId
    THEN Throw("The token not found")
    ELSE Ok(tokens[tokenId + 1])

\* nord.markets and nord.tokens
NordMarkets == <<[priceDecimals |-> 2, sizeDecimals |-> 6]>>

NordTokens == <<[decimals |-> 2]>>

\* this.accountIds?.[0]
FirstAccountId(user) ==
    IF user.accountIds = 0 \/ arrays[user.accountIds] = <<>> THEN None
    ELSE Some(arrays[user.accountIds][1])

\* the values of Date.now() the model lets the clock take
ClockValue(ms) == ms \div 1000 <= MaxSecond /\ ms % 1000 <= MaxMilli

\* a call may start: u exists, and Date.now() may advance by d while the
\* method reads the clock twice
CanCall(u, d) ==
    /\ u \in 1..Len(users)
    /\ Len(calls) < MaxCalls
    /\ ClockValue(now + d)

\* the call of a method that threw while it evaluated the parameters
ArgsThrown(u, method, case, me, thrown) ==
    ThrownCall(u, method, case, "args", me.lastTs, getTimestamp(now),
               me.lastNonce, thrown.error)

\* the call of a method that threw before it read the clock
MethodThrown(u, method, case, thrown) ==
    ThrownCall(u, method, case, "method", users[u].lastTs, 0, 0, thrown.error)

\* time passes: to the next millisecond, or to the next full second
Tick ==
    /\ \E ms \in {now + 1, ((now \div 1000) + 1) * 1000} :
          /\ ClockValue(ms)
          /\ now' = ms
    /\ UNCHANGED <<conv, users, arrays, calls>>

NordUser_refreshSession ==
    \E u \in 1..Len(users), d \in {0, 1}, sessionPk \in {Key(32), Key(31)} :
        /\ CanCall(u, d)
        /\ LET me == getNonce(users[u], now + d)
               userPubkey == optExpect(users[u].publicKey, "No user's public key")
           IN /\ users' = [users EXCEPT ![u] = me]
              /\ calls' = Append(calls,
                    IF userPubkey.status = "throw"
                    THEN ArgsThrown(u, "refreshSession", "createSession",
                                    me, userPubkey)
                    ELSE Call(u, "refreshSession", me.lastTs,
                              createSessionImpl(getTimestamp(now), me.lastNonce,
                                  [userPubkey |-> userPubkey.value,
                                   sessionPubkey |-> sessionPk,
                                   expiryTimestamp |-> None])))
        /\ now' = now + d
        /\ UNCHANGED <<conv, arrays>>

NordUser_revokeSession ==
    \E u \in 1..Len(users), d \in {0, 1}, sessionId \in {1} :
        /\ CanCall(u, d)
        /\ LET me == getNonce(users[u], now + d)
           IN /\ users' = [users EXCEPT ![u] = me]
              /\ calls' = Append(calls,
                    Call(u, "revokeSession", me.lastTs,
                         revokeSessionImpl(getTimestamp(now), me.lastNonce,
                                           [sessionId |-> sessionId])))
        /\ now' = now + d
        /\ UNCHANGED <<conv, arrays>>

NordUser_withdraw ==
    \E u \in 1..Len(users), d \in {0, 1}, tokenId \in {0, 1},
       amount \in {Dec(<<1>>, 0), Dec(<<0>>, 0)} :
        /\ CanCall(u, d)
        /\ LET me == getNonce(users[u], now + d)
               token == findToken(NordTokens, tokenId)
               sessionId == optExpect(users[u].sessionId, "No session")
           IN /\ users' = [users EXCEPT ![u] = me]
              /\ calls' = Append(calls,
                    IF token.status = "throw"
                    THEN ArgsThrown(u, "withdraw", "withdraw", me, token)
                    ELSE IF sessionId.status = "throw"
                    THEN ArgsThrown(u, "withdraw", "withdraw", me, sessionId)
                    ELSE Call(u, "withdraw", me.lastTs,
                              withdrawImpl(getTimestamp(now), me.lastNonce,
                                  [sizeDecimals |-> token.value.decimals,
                                   sessionId |-> sessionId.value,
                                   tokenId |-> tokenId,
                                   amount |-> amount])))
        /\ now' = now + d
        /\ UNCHANGED <<conv, arrays>>

NordUser_placeOrder ==
    \E u \in 1..Len(users), d \in {0, 1},
       params \in [marketId : {0, 1}, side : {"Bid"}, fillMode : {0, 4},
                   isReduceOnly : {FALSE}, size : {Some(Dec(<<1>>, 0))},
                   price : {Some(Dec(<<1>>, 0))}, quoteSize : {None},
                   accountId : {None}] :
        LET market == findMarket(NordMarkets, params.marketId)
            me == getNonce(users[u], now + d)
            sessionId == optExpect(users[u].sessionId, "No session")
        IN IF market.status = "throw"
           THEN /\ CanCall(u, 0)
                /\ calls' = Append(calls,
                      MethodThrown(u, "placeOrder", "placeOrder", market))
                /\ UNCHANGED <<conv, now, users, arrays>>
           ELSE /\ CanCall(u, d)
                /\ users' = [users EXCEPT ![u] = me]
                /\ calls' = Append(calls,
                      IF sessionId.status = "throw"
                      THEN ArgsThrown(u, "placeOrder", "placeOrder", me, sessionId)
                      ELSE Call(u, "placeOrder", me.lastTs,
                                placeOrderImpl(getTimestamp(now), me.lastNonce,
                                    [sessionId |-> sessionId.value,
                                     senderId |-> params.accountId,
                                     liquidateeId |-> None,
                                     sizeDecimals |-> market.value.sizeDecimals,
                                     priceDecimals |-> market.value.priceDecimals,
                                     marketId |-> params.marketId,
                                     side |-> params.side,
                                     fillMode |-> params.fillMode,
                                     isReduceOnly |-> params.isReduceOnly,
                                     size |-> params.size,
                                     price |-> params.price,
                                     quoteSize |-> params.quoteSize,
                                     clientOrderId |-> None])))
                /\ now' = now + d
                /\ UNCHANGED <<conv, arrays>>

NordUser_cancelOrder ==
    \E u \in 1..Len(users), d \in {0, 1}, orderId \in {5}, accountId \in {3} :
        /\ CanCall(u, d)
        /\ LET me == getNonce(users[u], now + d)
               sessionId == optExpect(users[u].sessionId, "No session")
           IN /\ users' = [users EXCEPT ![u] = me]
              /\ calls' = Append(calls,
                    IF sessionId.status = "throw"
                    THEN ArgsThrown(u, "cancelOrder", "cancelOrderById",
                                    me, sessionId)
                    ELSE Call(u, "cancelOrder", me.lastTs,
                              cancelOrderImpl(getTimestamp(now), me.lastNonce,
                                  [sessionId |-> sessionId.value,
                                   senderId |-> Some(accountId),
                                   orderId |-> orderId,
                                   liquidateeId |-> None])))
        /\ now' = now + d
        /\ UNCHANGED <<conv, arrays>>

NordUser_transferToAccount ==
    \E u \in 1..Len(users), d \in {0, 1},
       params \in [tokenId : {0, 1}, amount : {Dec(<<1>>, 0), Dec(<<1>>, 3)},
                   fromAccountId : {Some(3)}, toAccountId : {None, Some(4)}] :
        LET token == findToken(NordTokens, params.tokenId)
            me == getNonce(users[u], now + d)
            sessionId == optExpect(users[u].sessionId, "No session")
            fromAccountId == optExpect(params.fromAccountId, "No source account")
            toAccountId == optExpect(params.toAccountId, "No target account")
        IN IF token.status = "throw"
           THEN /\ CanCall(u, 0)
                /\ calls' = Append(calls,
                      MethodThrown(u, "transferToAccount", "transfer", token))
                /\ UNCHANGED <<conv, now, users, arrays>>
           ELSE /\ CanCall(u, d)
                /\ users' = [users EXCEPT ![u] = me]
                /\ calls' = Append(calls,
                      IF sessionId.status = "throw"
                      THEN ArgsThrown(u, "transferToAccount", "transfer",
                                      me, sessionId)
                      ELSE IF fromAccountId.status = "throw"
                      THEN ArgsThrown(u, "transferToAccount", "transfer",
                                      me, fromAccountId)
                      ELSE IF toAccountId.status = "throw"
                      THEN ArgsThrown(u, "transferToAccount", "transfer",
                                      me, toAccountId)
                      ELSE Call(u, "transferToAccount", me.lastTs,
                                transferImpl(getTimestamp(now), me.lastNonce,
                                    [sessionId |-> sessionId.value,
                                     fromAccountId |-> fromAccountId.value,
                                     toAccountId |-> Some(toAccountId.value),
                                     tokenId |-> params.tokenId,
                                     tokenDecimals |-> token.value.decimals,
                                     amount |-> params.amount])))
                /\ now' = now + d
                /\ UNCHANGED <<conv, arrays>>

NordUser_createAccount ==
    \E u \in 1..Len(users), d \in {0, 1},
       params \in [tokenId : {0, 1}, amount : {Dec(<<1>>, 0)}] :
        LET token == findToken(NordTokens, params.tokenId)
            me == getNonce(users[u], now + d)
            sessionId == optExpect(users[u].sessionId, "No session")
            fromAccountId == optExpect(FirstAccountId(users[u]),
                                       "No source account")
        IN IF token.status = "throw"
           THEN /\ CanCall(u, 0)
                /\ calls' = Append(calls,
                      MethodThrown(u, "createAccount", "transfer", token))
                /\ UNCHANGED <<conv, now, users, arrays>>
           ELSE /\ CanCall(u, d)
                /\ users' = [users EXCEPT ![u] = me]
                /\ calls' = Append(calls,
                      IF sessionId.status = "throw"
                      THEN ArgsThrown(u, "createAccount", "transfer",
                                      me, sessionId)
                      ELSE IF fromAccountId.status = "throw"
                      THEN ArgsThrown(u, "createAccount", "transfer",
                                      me, fromAccountId)
                      ELSE Call(u, "createAccount", me.lastTs,
                                transferImpl(getTimestamp(now), me.lastNonce,
                                    [sessionId |-> sessionId.value,
                                     fromAccountId |-> fromAccountId.value,
                                     toAccountId |-> None,
                                     tokenId |-> params.tokenId,
                                     tokenDecimals |-> token.value.decimals,
                                     amount |-> params.amount])))
                /\ now' = now + d
                /\ UNCHANGED <<conv, arrays>>

\* a user after construction, setPublicKey and updateAccountId
NewUser(publicKey, accountIds) ==
    [publicKey |-> publicKey, sessionId |-> None, accountIds |-> accountIds,
     lastTs |-> DateNowSeconds(0), lastNonce |-> 0, balances |-> {}]

InitUser ==
    /\ conv = IdleConv
    /\ now = 1000
    /\ \E known \in BOOLEAN :
          /\ users = <<NewUser(IF known THEN Some(Key(33)) ELSE None,
                               IF known THEN 1 ELSE 0)>>
          /\ arrays = IF known THEN <<(<<3>>)>> ELSE <<>>
    /\ calls = <<>>

NextUser ==
    \/ Tick
    \/ NordUser_refreshSession
    \/ NordUser_revokeSession
    \/ NordUser_withdraw
    \/ NordUser_placeOrder
    \/ NordUser_cancelOrder
    \/ NordUser_transferToAccount
    \/ NordUser_createAccount
    \/ \E i \in 1..Len(calls) : SignReturn(i)
    \/ \E i \in 1..Len(calls) : SignReject(i)
    \/ \E i \in 1..Len(calls) : SendReturn(i)
    \/ \E i \in 1..Len(calls) : SendReject(i)
    \/ \E i \in 1..Len(calls) : FetchReturn(i)
    \/ \E i \in 1..Len(calls) : FetchReject(i)

SpecUser == InitUser /\ [][NextUser]_vars

(***************************************************************************)
(* A NordUser with a session, and its clones: the state after a            *)
(* refreshSession at the first clock value has succeeded.                  *)
(***************************************************************************)
MaxUsers == 3

InitClone ==
    /\ conv = IdleConv
    /\ now = 1000
    /\ users = <<[getNonce(NewUser(Some(Key(33)), 1), 1000)
                     EXCEPT !.sessionId = Some(1)]>>
    /\ arrays = <<(<<3>>)>>
    /\ calls = <<>>

\* a call of NordUser.clone
NordUser_clone ==
    \E u \in 1..Len(users) :
        /\ Len(users) < MaxUsers
        /\ users' = Append(users, clone(users[u]))
        /\ UNCHANGED <<conv, now, arrays, calls>>

NextClone ==
    \/ Tick
    \/ NordUser_clone
    \/ NordUser_cancelOrder
    \/ NordUser_createAccount
    \/ \E i \in 1..Len(calls) : SignReturn(i)
    \/ \E i \in 1..Len(calls) : SignReject(i)
    \/ \E i \in 1..Len(calls) : SendReturn(i)
    \/ \E i \in 1..Len(calls) : SendReject(i)
    \/ \E i \in 1..Len(calls) : FetchReturn(i)
    \/ \E i \in 1..Len(calls) : FetchReject(i)

SpecClone == InitClone /\ [][NextClone]_vars

Init ==
    /\ conv = IdleConv
    /\ now = 0
    /\ users = <<>>
    /\ arrays = <<>>
    /\ calls = <<>>

Next ==
    \/ createSession
    \/ revokeSession
    \/ withdraw
    \/ placeOrder
    \/ cancelOrder
    \/ transfer
    \/ \E i \in 1..Len(calls) : SignReturn(i)
    \/ \E i \in 1..Len(calls) : SignReject(i)
    \/ \E i \in 1..Len(calls) : SendReturn(i)
    \/ \E i \in 1..Len(calls) : SendReject(i)

Spec == Init /\ [][Next]_vars

(***************************************************************************)
(* Nord.ts: a Subscriber, the sockets it opened and the messages they      *)
(* delivered.  `received` keeps every event the handler parsed, in order   *)
(* of arrival.                                                             *)
(***************************************************************************)
MaxBufferLen == 3

MaxMessages == 5

MaxSockets == 2

MAX_BUFFER_LEN == 10000

\* the number written by the digits ds, most significant first
RECURSIVE NumberOf(_)
NumberOf(ds) ==
    IF ds = <<>> THEN 0
    ELSE 10 * NumberOf(SubSeq(ds, 1, Len(ds) - 1)) + ds[Len(ds)]

\* JSON.parse on the texts the sockets deliver: a decimal numeral is a
\* number, the other texts are not JSON
JSONParse(message) ==
    IF /\ message # <<>>
       /\ \A k \in 1..Len(message) : message[k] \in DigitChars
       /\ (Len(message) = 1 \/ message[1] # "0")
    THEN Ok(NumberOf(FromChars(message)))
    ELSE Throw("SyntaxError")

RawData == {<<"1">>, <<"2">>, <<"1", "0">>, <<"{">>, <<>>}

\* config.maxBufferLen, undefined or a number
MaxBufferLens == {None} \cup {Some(n) : n \in -1..MaxBufferLen}

\* new Subscriber(config)
Subscriber(config) ==
    [maxBufferLen |-> IF config.maxBufferLen = None THEN MAX_BUFFER_LEN
                      ELSE config.maxBufferLen[1],
     buffer |-> <<>>, received |-> <<>>, sockets |-> 0, lastError |-> ""]

InitSubscriber ==
    /\ conv \in {Subscriber([maxBufferLen |-> m]) : m \in MaxBufferLens}
    /\ now = 0
    /\ users = <<>>
    /\ arrays = <<>>
    /\ calls = <<>>

\* Subscriber.subscribe
subscribe ==
    /\ conv.sockets < MaxSockets
    /\ conv' = [conv EXCEPT !.sockets = @ + 1]
    /\ UNCHANGED <<now, users, arrays, calls>>

\* a handler that removes the newest event on overflow
pushEventDroppingNewest(buffer, maxBufferLen, event) ==
    IF Len(buffer) + 1 > maxBufferLen THEN buffer ELSE Append(buffer, event)

\* the buffer after this.buffer.push(event) and the shift on overflow
pushEvent(buffer, maxBufferLen, event) ==
    IF Len(buffer) + 1 > maxBufferLen THEN Tail(Append(buffer, event))
    ELSE Append(buffer, event)

\* ws.on("message"): the text is parsed and buffered, or the handler throws
OnMessage ==
    \E rawData \in RawData :
        /\ conv.sockets > 0
        /\ Len(conv.received) < MaxMessages
        /\ LET event == JSONParse(rawData)
           IN conv' =
                 IF event.status = "throw"
                 THEN [conv EXCEPT !.lastError = event.error]
                 ELSE [conv EXCEPT
                          !.buffer = pushEvent(@, conv.maxBufferLen,
                                               event.value),
                          !.received = Append(@, event.value),
                          !.lastError = ""]
        /\ UNCHANGED <<now, users, arrays, calls>>

NextSubscriber == subscribe \/ OnMessage

SpecSubscriber == InitSubscriber /\ [][NextSubscriber]_vars

(***************************************************************************)
(* One call with its arguments on record: checkPubKeyLength on any key     *)
(* type and length, createSession with keys of any length and an expiry    *)
(* around the current timestamp, withdraw with amounts around zero.        *)
(***************************************************************************)
MaxKeyLen == 34

KeyTypes == {"Ed25519", "Secp256k1", "Bls12_381"}

KeyLens == 0..MaxKeyLen

\* the lengths tried in createSession: none, and those around 32 and 33
SessionKeyLens == {0} \cup 31..MaxKeyLen

IdleCall == [op |-> "none"]

InitParams ==
    /\ conv = IdleCall
    /\ now = 0
    /\ users = <<>>
    /\ arrays = <<>>
    /\ calls = <<>>

CheckPubKeyLengthCall ==
    \E keyType \in KeyTypes, len \in KeyLens :
        /\ conv = IdleCall
        /\ conv' = [op |-> "checkPubKeyLength", keyType |-> keyType,
                    len |-> len, result |-> checkPubKeyLength(keyType, len)]
        /\ UNCHANGED <<now, users, arrays, calls>>

\* expiry timestamps before, at and after the current timestamp
ExpiriesAt(currentTimestamp) ==
    {None} \cup {Some(BigOfInt(currentTimestamp + d)) : d \in {-1, 0, 1}}
           \cup {Some(BigAdd(BigOfInt(currentTimestamp), SESSION_TTL))}

createSessionWithParams ==
    \E currentTimestamp \in Timestamps, nonce \in Nonces,
       userLen \in SessionKeyLens, sessionLen \in SessionKeyLens :
       \E expiryTimestamp \in ExpiriesAt(currentTimestamp) :
        /\ conv = IdleCall
        /\ conv' = [op |-> "createSession",
                    currentTimestamp |-> currentTimestamp,
                    userPubkey |-> Key(userLen),
                    sessionPubkey |-> Key(sessionLen),
                    expiryTimestamp |-> expiryTimestamp]
        /\ calls' = <<DirectCall(createSessionImpl(currentTimestamp, nonce,
                      [userPubkey |-> Key(userLen),
                       sessionPubkey |-> Key(sessionLen),
                       expiryTimestamp |-> expiryTimestamp]))>>
        /\ UNCHANGED <<now, users, arrays>>

WithdrawAmounts ==
    {Literal(neg, m, scale) :
        neg \in BOOLEAN, m \in {<<0>>, <<1>>, <<1, 5>>, U64MaxDigits},
        scale \in 0..MaxDecimals}

withdrawWithParams ==
    \E currentTimestamp \in Timestamps, nonce \in Nonces,
       amount \in WithdrawAmounts, sizeDecimals \in 0..MaxDecimals :
        /\ conv = IdleCall
        /\ conv' = [op |-> "withdraw", amount |-> amount,
                    sizeDecimals |-> sizeDecimals]
        /\ calls' = <<DirectCall(withdrawImpl(currentTimestamp, nonce,
                      [sizeDecimals |-> sizeDecimals, sessionId |-> 1,
                       tokenId |-> 0, amount |-> amount]))>>
        /\ UNCHANGED <<now, users, arrays>>

\* fill mode values: the four members of FillMode and two that are none
FillModeValues == -1..4

OrderAmounts(small) ==
    {None, Some(Dec(<<1>>, 0)), Some(Dec(<<2, 5>>, 1)), Some(small)}

placeOrderWithParams ==
    \E price \in OrderAmounts(Literal(TRUE, <<1>>, 0)),
       size \in OrderAmounts(Dec(<<1>>, 7)),
       quoteSize \in OrderAmounts(Dec(DigitsInc(U128MaxDigits), 0)),
       fillMode \in FillModeValues, side \in {"Bid", "Ask"},
       priceDecimals \in {0, 2}, sizeDecimals \in {0, 6} :
        /\ conv = IdleCall
        /\ conv' = [op |-> "placeOrder", price |-> price, size |-> size,
                    quoteSize |-> quoteSize, fillMode |-> fillMode,
                    side |-> side, priceDecimals |-> priceDecimals,
                    sizeDecimals |-> sizeDecimals]
        /\ calls' = <<DirectCall(placeOrderImpl(1, 0,
                      [sessionId |-> 1, senderId |-> None, liquidateeId |-> None,
                       sizeDecimals |-> sizeDecimals,
                       priceDecimals |-> priceDecimals, marketId |-> 0,
                       side |-> side, fillMode |-> fillMode,
                       isReduceOnly |-> FALSE, size |-> size, price |-> price,
                       quoteSize |-> quoteSize, clientOrderId |-> None]))>>
        /\ UNCHANGED <<now, users, arrays>>

NextParams ==
    \/ CheckPubKeyLengthCall
    \/ createSessionWithParams
    \/ withdrawWithParams
    \/ placeOrderWithParams
    \/ \E i \in 1..Len(calls) : SignReturn(i)
    \/ \E i \in 1..Len(calls) : SignReject(i)
    \/ \E i \in 1..Len(calls) : SendReturn(i)
    \/ \E i \in 1..Len(calls) : SendReject(i)

SpecParams == InitParams /\ [][NextParams]_vars

(***************************************************************************)
(* Reference values for the claims about the conversion, read off the      *)
(* literal itself.                                                         *)
(***************************************************************************)
LitNeg(cs) == cs # <<>> /\ cs[1] = "-"

LitBody(cs) == IF LitNeg(cs) THEN Tail(cs) ELSE cs

LitDot(cs) ==
    LET body == LitBody(cs)
        dots == {i \in 1..Len(body) : body[i] = "."}
    IN IF dots = {} THEN Len(body) + 1 ELSE CHOOSE i \in dots : TRUE

LitInt(cs) == FromChars(SubSeq(LitBody(cs), 1, LitDot(cs) - 1))

LitFrac(cs) == FromChars(SubSeq(LitBody(cs), LitDot(cs) + 1, Len(LitBody(cs))))

LitIsZero(cs) == \A i \in 1..Len(LitBody(cs)) : LitBody(cs)[i] \in {"0", "."}

\* floor(|x| * 10^decimals), exactly
ExactScaledFloor(cs, decimals) ==
    StripLeading(LitInt(cs) \o SubSeq(LitFrac(cs) \o Zeros(decimals), 1, decimals))

ConvDone == conv.bits # 0

ConvMax == IF conv.bits = 64 THEN U64MaxDigits ELSE U128MaxDigits

ConvFloor == ExactScaledFloor(conv.x, conv.decimals)

\* C8: a value returned by toScaledU64 / toScaledU128 for a non-negative x
\* equals floor(x * 10^decimals), whatever the number of digits of x.
C8_ReturnsExactFloor ==
    (ConvDone /\ ~LitNeg(conv.x) /\ conv.result.status = "ok")
        => conv.result.value = Big(ConvFloor)

\* C9: a nonzero non-negative x whose scaled value truncates to zero makes
\* the conversion fail with a precision-loss error.
C9_ZeroFloorIsPrecisionLoss ==
    (ConvDone /\ ~LitNeg(conv.x) /\ ~LitIsZero(conv.x) /\ ConvFloor = <<0>>)
        => (conv.result.status = "throw" /\ conv.result.error = "Precision loss")

\* C10: for a positive x the conversion fails with an out-of-range error
\* exactly when floor(x * 10^decimals) exceeds 2^w - 1.
C10_OutOfRangeIffFloorExceedsMax ==
    (ConvDone /\ ~LitNeg(conv.x) /\ ~LitIsZero(conv.x))
        => ((conv.result.status = "throw"
               /\ conv.result.error = "Integer is out of range")
            <=> DigitsLess(ConvMax, ConvFloor))

\* C11: for a negative x and any number of decimals, toScaledU64 and
\* toScaledU128 fail with the negative-value error and return no value.
C11_NegativeRejected ==
    (ConvDone /\ LitNeg(conv.x) /\ ~LitIsZero(conv.x))
        => (conv.result.status = "throw"
            /\ conv.result.error = "Number is negative")

C11_Witness ==
    /\ ConvDone
    /\ LitNeg(conv.x) /\ ~LitIsZero(conv.x)
    /\ ConvFloor = <<0>> /\ conv.decimals > 0
    /\ conv.result = Throw("Number is negative")

\* C12: a zero x converts to 0 for every number of decimals and both
\* widths; a returned value lies in [0, 2^w - 1] and is 0 exactly when x is
\* zero.
C12_ZeroAndRange ==
    ConvDone =>
        /\ LitIsZero(conv.x) => conv.result = Ok(Big(<<0>>))
        /\ conv.result.status = "ok" =>
              /\ ~conv.result.value.neg
              /\ ~DigitsLess(ConvMax, conv.result.value.mag)
              /\ (conv.result.value.mag = <<0>>) <=> LitIsZero(conv.x)

C12_Witness ==
    /\ ConvDone
    /\ conv.result = Ok(Big(ConvMax))
    /\ conv.decimals > 0

\* a bigint is one unsigned 64-bit word
IsU64(b) == ~b.neg /\ ~DigitsLess(U64MaxDigits, b.mag)

\* C13: bigIntToProtoU128(v) fails exactly when v < 0 or v > 2^128 - 1, and
\* otherwise returns two 64-bit words lo, hi with lo + hi * 2^64 = v.
C13_SplitReconstructs ==
    conv.called =>
        /\ (conv.result.status = "throw")
              <=> (conv.value.neg \/ DigitsLess(U128MaxDigits, conv.value.mag))
        /\ conv.result.status = "ok" =>
              /\ IsU64(conv.result.value.lo)
              /\ IsU64(conv.result.value.hi)
              /\ DigitsAdd(conv.result.value.lo.mag,
                           DigitsMul(conv.result.value.hi.mag,
                                     BigShiftLeftOne(64)))
                    = conv.value.mag

C13_Witness ==
    /\ conv.called
    /\ conv.value = Big(U128MaxDigits)
    /\ conv.result = Ok([lo |-> Big(U64MaxDigits), hi |-> Big(U64MaxDigits)])

(***************************************************************************)
(* Reference values for the claims about the framing, read off the bytes.  *)
(***************************************************************************)
\* the buffer starts with a complete length prefix
HasPrefix(b) == \E i \in 1..Len(b) : b[i] < 128

\* the number of bytes of the length prefix
PrefixLen(b) ==
    CHOOSE i \in 1..Len(b) : b[i] < 128 /\ \A j \in 1..(i - 1) : b[j] >= 128

\* the length the prefix declares (prefixes of at most three bytes)
PrefixValue(b) ==
    (b[1] % 128)
    + (IF PrefixLen(b) >= 2 THEN (b[2] % 128) * 128 ELSE 0)
    + (IF PrefixLen(b) >= 3 THEN (b[3] % 128) * 16384 ELSE 0)

\* C14: an action of any variant, with its optional fields present or
\* absent, that is encoded and framed and then read back from the frame is
\* the same action.
C14_RoundTrip ==
    (conv.stage = "decoded" /\ conv.message # None
                            /\ conv.buffer = conv.frame.value)
        => (conv.decoded.status = "ok" /\ conv.decodedMessage = conv.message)

C14_Witness ==
    /\ conv.stage = "decoded"
    /\ conv.message # None
    /\ conv.buffer = conv.frame.value
    /\ conv.message[1].kind.case = "placeOrder"
    /\ conv.message[1].kind.value.senderAccountId = None
    /\ conv.message[1].kind.value.clientOrderId = Some(350)
    /\ conv.decodedMessage = conv.message

\* C15: encodeLengthDelimited fails with the oversize error exactly when
\* the payload has more than 102400 bytes, and otherwise returns the
\* shortest varint of the payload length followed by the payload.
C15_EncodeCap ==
    conv.stage # "new" =>
        IF Len(conv.payload) > 102400
        THEN conv.frame =
                Throw("Encoded message size is greater than max payload size")
        ELSE /\ conv.frame.status = "ok"
             /\ HasPrefix(conv.frame.value)
             /\ PrefixValue(conv.frame.value) = Len(conv.payload)
             /\ PrefixLen(conv.frame.value) =
                   (IF Len(conv.payload) < 128 THEN 1
                    ELSE IF Len(conv.payload) < 16384 THEN 2 ELSE 3)
             /\ SubSeq(conv.frame.value, PrefixLen(conv.frame.value) + 1,
                       Len(conv.frame.value)) = conv.payload

C15_Witness ==
    /\ conv.stage # "new"
    /\ Len(conv.payload) = 129
    /\ conv.frame.status = "ok"
    /\ conv.frame.value = <<129, 1>> \o conv.payload

\* C16: decodeLengthDelimited fails with the oversize error when the
\* declared length exceeds 102400, whatever the size of the buffer, fails
\* with the truncated error when the declared length is within the cap
\* and exceeds the bytes after the prefix, and otherwise hands to the
\* coder the declared number of bytes after the prefix, whatever follows.
C16_DecodeChecks ==
    (conv.stage = "decoded" /\ HasPrefix(conv.buffer)) =>
        IF PrefixValue(conv.buffer) > 102400
        THEN conv.decoded =
                Throw("Encoded message size is greater than max payload size")
        ELSE IF PrefixValue(conv.buffer)
                   > Len(conv.buffer) - PrefixLen(conv.buffer)
        THEN conv.decoded =
                Throw("Encoded message size is greater than remaining buffer size")
        ELSE conv.decoded =
                Ok(SubSeq(conv.buffer, PrefixLen(conv.buffer) + 1,
                          PrefixLen(conv.buffer) + PrefixValue(conv.buffer)))

C16_Witness ==
    /\ conv.stage = "decoded"
    /\ conv.message # None
    /\ conv.buffer = conv.frame.value \o <<9, 9>>
    /\ conv.decoded = Ok(conv.payload)
    /\ conv.decodedMessage = conv.message

(***************************************************************************)
(* The claims about the action functions and the NordUser methods.         *)
(***************************************************************************)
CallIds == 1..Len(calls)

ValidationErrors ==
    {"Ed25519 pubkeys must be 32 length.", "Secp256k1 pubkeys must be 33 length.",
     "Cannot set expiry timestamp in the past", "Number is negative",
     "Precision loss", "Integer is out of range",
     "Withdraw amount must be positive", "Invalid fill mode"}

ValidationFailed(c) ==
    /\ c.reached = "impl"
    /\ c.inner.state = "rejected"
    /\ c.inner.error \in ValidationErrors

\* C1: a call of one of the six action functions that fails with a
\* validation error has not invoked the send function, and never does: it
\* is finished, with nothing signed and nothing sent.
C1_ValidationNeverSends ==
    \A i \in CallIds :
        ValidationFailed(calls[i])
            => (calls[i].sends = 0 /\ calls[i].stage = "done"
                /\ calls[i].body = <<>> /\ calls[i].resp = None)

C1_Witness ==
    \E i \in CallIds :
        /\ ValidationFailed(calls[i])
        /\ calls[i].case = "placeOrder"
        /\ calls[i].inner.error = "Invalid fill mode"

\* the result kind each action kind expects
ExpectedReceipt(case) ==
    IF case = "createSession" THEN "createSessionResult"
    ELSE IF case = "revokeSession" THEN "revokeSessionResult"
    ELSE IF case = "withdraw" THEN "withdrawResult"
    ELSE IF case = "placeOrder" THEN "placeOrderResult"
    ELSE IF case = "cancelOrderById" THEN "cancelOrderResult"
    ELSE "transferred"

Received(c) == c.resp # None

\* C2: for every one of the six action kinds, a decoded receipt that is not
\* an err receipt and not of the kind expected for the action makes the call
\* fail with an unexpected-receipt-kind error.
C2_UnexpectedKindFails ==
    \A i \in CallIds :
        (/\ Received(calls[i])
         /\ calls[i].resp[1].case \notin {"err", ExpectedReceipt(calls[i].case)})
            => calls[i].inner = UnexpectedReceiptKind

\* C3: for every action kind, an err receipt makes the call fail with an
\* error that carries the error code of the receipt, and no value is
\* returned.
C3_ErrReceiptFails ==
    \A i \in CallIds :
        (Received(calls[i]) /\ calls[i].resp[1].case = "err")
            => (/\ calls[i].inner.state = "rejected"
                /\ FromChars(calls[i].inner.reason) = IntDigits(calls[i].resp[1].a)
                /\ calls[i].inner.value = None
                /\ calls[i].outer = calls[i].inner)

C3_Witness ==
    \E i \in CallIds :
        /\ Received(calls[i])
        /\ calls[i].resp[1] = Receipt("err", 7, 0)
        /\ calls[i].case = "withdraw"

\* the calls of one user that carry a timestamp and a nonce
Issued(i) == calls[i].user # 0 /\ calls[i].reached = "impl"

\* C4: no two actions issued through one NordUser carry the same pair of
\* currentTimestamp and nonce.
C4_TimestampNonceUnique ==
    \A i, j \in CallIds :
        (/\ i < j
         /\ Issued(i) /\ Issued(j)
         /\ calls[i].user = calls[j].user)
            => <<calls[i].currentTimestamp, calls[i].nonce>>
                   # <<calls[j].currentTimestamp, calls[j].nonce>>

\* the calls of one user for which getNonce ran
TookNonce(i) == calls[i].user # 0 /\ calls[i].reached # "method"

\* j is the getNonce call of the same user that follows i
NextNonce(i, j) ==
    /\ i < j
    /\ TookNonce(i) /\ TookNonce(j)
    /\ calls[i].user = calls[j].user
    /\ \A k \in CallIds :
          (i < k /\ k < j) => ~(TookNonce(k) /\ calls[k].user = calls[i].user)

\* C5: on one NordUser, where a tick is a value of Date.now() / 1000 as
\* getNonce reads it, a getNonce call that follows another in the same tick
\* returns one more than it, the first call of a tick returns 0 (for a
\* clone, whose counter starts as a copy, from its second call on), and
\* calls made in one tick, whether finished or not, have pairwise distinct
\* nonces.
C5_NonceWithinTick ==
    /\ \A i, j \in CallIds :
          NextNonce(i, j)
              => calls[j].nonce = IF calls[j].tick = calls[i].tick
                                  THEN calls[i].nonce + 1 ELSE 0
    /\ \A j \in CallIds :
          (/\ TookNonce(j)
           /\ ~\E i \in CallIds : NextNonce(i, j)
           /\ ~\E k \in CallIds : calls[k].newUser = calls[j].user)
              => calls[j].nonce = 0
    /\ \A i, j \in CallIds :
          (/\ i < j
           /\ TookNonce(i) /\ TookNonce(j)
           /\ calls[i].user = calls[j].user
           /\ calls[i].tick = calls[j].tick)
              => calls[i].nonce < calls[j].nonce

C5_Witness ==
    \E i, j \in CallIds :
        /\ NextNonce(i, j)
        /\ calls[i].tick = calls[j].tick
        /\ calls[i].stage # "done" /\ calls[j].stage # "done"
        /\ calls[i].nonce = 0 /\ calls[j].nonce = 1

\* C6: the promise a NordUser action method returns settles only after the
\* submission it made has finished, and rejects whenever that submission
\* fails.
C6_FailureSurfaced ==
    \A i \in CallIds :
        (calls[i].user # 0 /\ calls[i].reached = "impl")
            => (/\ calls[i].outer.state # "pending"
                      => calls[i].inner.state # "pending"
                /\ calls[i].inner.state = "rejected"
                      => calls[i].outer.state = "rejected")

WalletKinds == {"createSession", "revokeSession"}

\* the bytes of a hex string but the last
AllButLastByte(hex) ==
    LET bytes == GetBytes(hex).value IN SubSeq(bytes, 1, Len(bytes) - 1)

\* C7: createSession and revokeSession are signed by the wallet capability
\* and never by the session one, the four other kinds by the session
\* capability and never by the wallet one; the bytes sent are the encoded
\* action followed by the signature, without its last byte in the wallet
\* case and whole in the session case.
C7_SigningScheme ==
    \A i \in CallIds :
        LET c == calls[i]
        IN /\ (c.reached = "impl" /\ c.signer # "none")
                 => (c.signer = "wallet") = (c.case \in WalletKinds)
           /\ c.sends > 0
                 => IF c.case \in WalletKinds
                    THEN /\ c.sessionSignature = <<>>
                         /\ c.body = c.encoded \o AllButLastByte(c.walletSignature)
                    ELSE /\ c.walletSignature = <<>>
                         /\ c.body = c.encoded \o c.sessionSignature

C7_Witness ==
    \E i \in CallIds :
        /\ calls[i].case = "revokeSession"
        /\ calls[i].sends > 0
        /\ calls[i].walletSignature = Hexlify(<<200, 1, 28>>)
        /\ calls[i].body = calls[i].encoded \o <<200, 1>>


(***************************************************************************)
(* The claims about the checks made on the arguments of a call.            *)
(***************************************************************************)
\* the action a call encoded, read back from the framed bytes
Transmitted(c) == ProtoActionDecode(decodeLengthDelimited(c.encoded).value)

\* the call failed with msg before it asked for a signature
FailedEarly(c, msg) ==
    /\ c.inner = Rejected(msg, <<>>)
    /\ c.stage = "done"
    /\ c.sends = 0
    /\ c.encoded = <<>>
    /\ c.body = <<>>

\* C17: checkPubKeyLength accepts an Ed25519 key of 32 bytes and a
\* Secp256k1 key of 33 bytes and fails in every other case, Bls12_381
\* included; createSession fails with nothing sent unless userPubkey has 33
\* bytes and sessionPubkey has 32.
C17_KeyLengthMatrix ==
    /\ conv.op = "checkPubKeyLength" =>
          IF \/ (conv.keyType = "Ed25519" /\ conv.len = 32)
             \/ (conv.keyType = "Secp256k1" /\ conv.len = 33)
          THEN conv.result.status = "ok"
          ELSE conv.result.status = "throw"
    /\ (conv.op = "createSession"
            /\ (conv.userPubkey.len # 33 \/ conv.sessionPubkey.len # 32)) =>
          \A i \in CallIds :
              FailedEarly(calls[i],
                          IF conv.userPubkey.len # 33
                          THEN "Secp256k1 pubkeys must be 33 length."
                          ELSE "Ed25519 pubkeys must be 32 length.")

C17_Witness ==
    /\ conv.op = "createSession"
    /\ conv.userPubkey.len = 33
    /\ conv.sessionPubkey.len = 33
    /\ calls # <<>>
    /\ FailedEarly(calls[1], "Ed25519 pubkeys must be 32 length.")

\* C18: createSession with valid keys fails with the expiry error, nothing
\* sent, when the supplied expiry is not greater than currentTimestamp;
\* otherwise the transmitted expiry is the supplied one, or
\* currentTimestamp + SESSION_TTL when none was supplied.
C18_ExpiryRule ==
    (conv.op = "createSession"
        /\ conv.userPubkey.len = 33 /\ conv.sessionPubkey.len = 32) =>
        \A i \in CallIds :
            IF /\ conv.expiryTimestamp # None
               /\ ~DigitsLess(IntDigits(conv.currentTimestamp),
                              conv.expiryTimestamp[1].mag)
            THEN FailedEarly(calls[i], "Cannot set expiry timestamp in the past")
            ELSE /\ calls[i].encoded # <<>>
                 /\ Transmitted(calls[i]).kind.value.expiryTimestamp =
                       (IF conv.expiryTimestamp # None
                        THEN conv.expiryTimestamp[1]
                        ELSE BigAdd(BigOfInt(conv.currentTimestamp), SESSION_TTL))
                 /\ calls[i].sends > 0 =>
                       SubSeq(calls[i].body, 1, Len(calls[i].encoded))
                           = calls[i].encoded

C18_Witness ==
    /\ conv.op = "createSession"
    /\ conv.expiryTimestamp = Some(BigOfInt(conv.currentTimestamp + 1))
    /\ calls # <<>>
    /\ calls[1].sends > 0
    /\ Transmitted(calls[1]).kind.value.expiryTimestamp
          = BigOfInt(conv.currentTimestamp + 1)

\* C19: a session created by NordUser.refreshSession expires 600 seconds
\* after its currentTimestamp, which getTimestamp counts in seconds.
C19_SessionTtlIsTenMinutes ==
    \A i \in CallIds :
        (calls[i].method = "refreshSession" /\ calls[i].encoded # <<>>) =>
            Transmitted(calls[i]).kind.value.expiryTimestamp
                = BigOfInt(calls[i].currentTimestamp + 600)

\* C20: withdraw fails with the non-positive-amount error when the scaled
\* amount is not greater than zero, as for an amount of 0, and a withdraw
\* action that is encoded carries the scaled amount, which is not 0.
C20_WithdrawPositive ==
    conv.op = "withdraw" =>
        \A i \in CallIds :
            /\ (toScaledU64(conv.amount, conv.sizeDecimals).status = "ok"
                  /\ ~BigLess(Big(<<0>>),
                              toScaledU64(conv.amount, conv.sizeDecimals).value))
                  => FailedEarly(calls[i], "Withdraw amount must be positive")
            /\ LitIsZero(conv.amount)
                  => FailedEarly(calls[i], "Withdraw amount must be positive")
            /\ calls[i].encoded # <<>> =>
                  /\ Transmitted(calls[i]).kind.value.amount
                        = toScaledU64(conv.amount, conv.sizeDecimals).value
                  /\ Transmitted(calls[i]).kind.value.amount # Big(<<0>>)

C20_Witness ==
    /\ conv.op = "withdraw"
    /\ LitIsZero(conv.amount)
    /\ conv.sizeDecimals > 0
    /\ calls # <<>>
    /\ FailedEarly(calls[1], "Withdraw amount must be positive")


(***************************************************************************)
(* The claims about the fields of a placeOrder action.                     *)
(***************************************************************************)
One == Some(Dec(<<1>>, 0))

\* the placeOrder call on record has price 1, size 1 and decimals 2 and 6
UnitOrder ==
    /\ conv.op = "placeOrder"
    /\ conv.price = One /\ conv.size = One
    /\ conv.priceDecimals = 2 /\ conv.sizeDecimals = 6

\* the order carries price 100, size 1000000 and quoteSize {100000000, 0}
CarriesUnitOrder(c) ==
    /\ Transmitted(c).kind.value.price = Big(<<1, 0, 0>>)
    /\ Transmitted(c).kind.value.size = Big(<<1, 0, 0, 0, 0, 0, 0>>)
    /\ Transmitted(c).kind.value.quoteSize =
          [lo |-> Big(<<1, 0, 0, 0, 0, 0, 0, 0, 0>>), hi |-> Big(<<0>>)]

\* C21: a placeOrder action built with price 1, size 1, priceDecimals 2 and
\* sizeDecimals 6 carries price 100, size 1000000 and quoteSize
\* {lo: 100000000, hi: 0}.
C21_UnitOrderScaled ==
    UnitOrder =>
        \A i \in CallIds :
            calls[i].encoded # <<>> => CarriesUnitOrder(calls[i])

\* C21 as amended: the same with quoteSize 1 supplied as well.
C21_UnitOrderWithQuoteScaled ==
    (UnitOrder /\ conv.quoteSize = One) =>
        \A i \in CallIds :
            /\ conv.fillMode \in 0..3 => calls[i].encoded # <<>>
            /\ calls[i].encoded # <<>> => CarriesUnitOrder(calls[i])

C21_Witness ==
    /\ UnitOrder
    /\ conv.quoteSize = One
    /\ calls # <<>>
    /\ calls[1].sends > 0
    /\ CarriesUnitOrder(calls[1])


\* the three amounts of the placeOrder call on record, omitted ones as 0
OrderPrice == toScaledU64(IF conv.price = None THEN <<"0">> ELSE conv.price[1],
                          conv.priceDecimals)

OrderSize == toScaledU64(IF conv.size = None THEN <<"0">> ELSE conv.size[1],
                         conv.sizeDecimals)

OrderQuoteSize ==
    toScaledU128(IF conv.quoteSize = None THEN <<"0">> ELSE conv.quoteSize[1],
                 conv.priceDecimals + conv.sizeDecimals)

OrderAmountsConvert ==
    /\ OrderPrice.status = "ok"
    /\ OrderSize.status = "ok"
    /\ OrderQuoteSize.status = "ok"

\* C23: placeOrder carries price scaled by priceDecimals and size scaled by
\* sizeDecimals to 64 bits and the two words of quoteSize scaled by
\* priceDecimals + sizeDecimals to 128 bits; an omitted amount counts as 0,
\* and such an order is built with the value 0, not rejected.
C23_OrderAmounts ==
    (conv.op = "placeOrder" /\ conv.fillMode \in 0..3 /\ OrderAmountsConvert) =>
        \A i \in CallIds :
            /\ calls[i].encoded # <<>>
            /\ Transmitted(calls[i]).kind.value.price = OrderPrice.value
            /\ Transmitted(calls[i]).kind.value.size = OrderSize.value
            /\ DigitsAdd(Transmitted(calls[i]).kind.value.quoteSize.lo.mag,
                         DigitsMul(Transmitted(calls[i]).kind.value.quoteSize.hi.mag,
                                   BigShiftLeftOne(64)))
                  = OrderQuoteSize.value.mag
            /\ conv.price = None =>
                  Transmitted(calls[i]).kind.value.price = Big(<<0>>)
            /\ conv.size = None =>
                  Transmitted(calls[i]).kind.value.size = Big(<<0>>)
            /\ conv.quoteSize = None =>
                  Transmitted(calls[i]).kind.value.quoteSize
                      = [lo |-> Big(<<0>>), hi |-> Big(<<0>>)]

C23_Witness ==
    /\ conv.op = "placeOrder"
    /\ conv.price = None /\ conv.size = None /\ conv.quoteSize = None
    /\ calls # <<>>
    /\ calls[1].sends > 0
    /\ Transmitted(calls[1]).kind.value.price = Big(<<0>>)

\* the wire name of each member of FillMode
WireFillMode(x) ==
    IF x = 0 THEN "LIMIT" ELSE IF x = 1 THEN "POST_ONLY"
    ELSE IF x = 2 THEN "IMMEDIATE_OR_CANCEL" ELSE "FILL_OR_KILL"

\* C25: placeOrder sends Limit, PostOnly, ImmediateOrCancel, FillOrKill as
\* LIMIT, POST_ONLY, IMMEDIATE_OR_CANCEL, FILL_OR_KILL and Bid, Ask as BID,
\* ASK; with any other fill mode it fails with nothing sent, and with the
\* invalid-fill-mode error when its amounts are valid.
C25_FillModeAndSide ==
    conv.op = "placeOrder" =>
        \A i \in CallIds :
            /\ calls[i].encoded # <<>> =>
                  /\ conv.fillMode \in 0..3
                  /\ Transmitted(calls[i]).kind.value.fillMode
                        = WireFillMode(conv.fillMode)
                  /\ Transmitted(calls[i]).kind.value.side
                        = (IF conv.side = "Bid" THEN "BID" ELSE "ASK")
            /\ conv.fillMode \notin 0..3 =>
                  /\ calls[i].inner.state = "rejected"
                  /\ calls[i].sends = 0
                  /\ calls[i].stage = "done"
                  /\ OrderAmountsConvert
                        => FailedEarly(calls[i], "Invalid fill mode")

\* C25 as first stated: every fill mode outside the enum fails with the
\* invalid-fill-mode error, whatever the amounts of the order.
C25_FillModeAlwaysReported ==
    (conv.op = "placeOrder" /\ conv.fillMode \notin 0..3) =>
        \A i \in CallIds : FailedEarly(calls[i], "Invalid fill mode")

C25_Witness ==
    /\ conv.op = "placeOrder"
    /\ conv.fillMode = 4
    /\ OrderAmountsConvert
    /\ calls # <<>>
    /\ FailedEarly(calls[1], "Invalid fill mode")


(***************************************************************************)
(* The claims about the course of one submission.                          *)
(***************************************************************************)
\* the step taken by call i from c to d
SubmissionStep(c, d) ==
    /\ d.sends \in {c.sends, c.sends + 1}
    /\ d.sends <= 1
    \* the send function is invoked once the action is encoded and the
    \* signing capability has returned, with what it returned
    /\ d.sends # c.sends =>
          /\ c.stage = "signing" /\ d.stage = "sending"
          /\ c.encoded # <<>> /\ d.encoded = c.encoded
          /\ c.inner.state = "pending"
          /\ d.walletSignature \o d.sessionSignature # <<>>
          /\ Len(d.body) >= Len(c.encoded)
          /\ SubSeq(d.body, 1, Len(c.encoded)) = c.encoded
    \* the response is decoded once the send function has returned
    /\ d.resp # c.resp =>
          /\ c.stage = "sending" /\ c.sends = 1 /\ c.resp = None
          /\ d.stage # "sending"
    \* every failure ends the call
    /\ d.inner.state = "rejected" => d.stage = "done"
    /\ c.inner.state = "rejected" => (d.sends = c.sends /\ d.inner = c.inner)

\* C22: a submission is one attempt in a fixed order: the send function is
\* invoked at most once per call, after the action is encoded and the
\* signing capability has returned; the response is decoded after the send
\* function has returned; after a failure of signing, of the transport, of
\* decoding or by an Err receipt the call sends nothing more.
C22_SingleAttempt ==
    [][/\ Len(calls') >= Len(calls)
       /\ \A i \in CallIds : SubmissionStep(calls[i], calls'[i])
       /\ \A i \in 1..Len(calls') \ CallIds :
             /\ calls'[i].sends = 0 /\ calls'[i].resp = None
             /\ calls'[i].inner.state = "rejected" => calls'[i].stage = "done"]_vars

C22_Witness ==
    \E i \in CallIds :
        /\ calls[i].sends = 1
        /\ calls[i].resp # None
        /\ calls[i].resp[1].case = "err"
        /\ calls[i].inner.state = "rejected"
        /\ calls[i].stage = "done"


(***************************************************************************)
(* The claims about transfers and the accounts they create.                *)
(***************************************************************************)
\* call i got a transferred receipt for its transfer
Transferred(i) ==
    /\ calls[i].case = "transfer"
    /\ Received(calls[i])
    /\ calls[i].resp[1].case = "transferred"

AccountCreated(i) == Transferred(i) /\ calls[i].resp[1].a = 1

NoAccountCreated == Rejected("New account should have been created", <<>>)

\* C24: transfer returns toAccountId of the transferred receipt exactly
\* when the receipt reports that an account was created, and undefined
\* otherwise; createAccount returns a new user only when the receipt
\* reports a created account, and fails with 'New account should have been
\* created' when it reports none.
C24_CreatedAccount ==
    \A i \in CallIds :
        /\ Transferred(i) =>
              calls[i].inner = Fulfilled(IF calls[i].resp[1].a = 1
                                         THEN Some(calls[i].resp[1].b)
                                         ELSE None)
        /\ calls[i].method = "createAccount" =>
              /\ (calls[i].newUser # 0 \/ calls[i].outer.state = "fulfilled")
                    => AccountCreated(i)
              /\ calls[i].outer.state = "fulfilled"
                    => calls[i].outer.value = Some(calls[i].newUser)
              /\ (Transferred(i) /\ ~AccountCreated(i))
                    => calls[i].outer = NoAccountCreated

C24_Witness ==
    \E i \in CallIds :
        /\ calls[i].method = "createAccount"
        /\ calls[i].resp = Some(Receipt("transferred", 0, 7))
        /\ calls[i].inner = Fulfilled(None)
        /\ calls[i].outer = NoAccountCreated
        /\ calls[i].newUser = 0


(***************************************************************************)
(* The claims about sessions.                                              *)
(***************************************************************************)
SessionMethods ==
    {"withdraw", "placeOrder", "cancelOrder", "transferToAccount",
     "createAccount"}

NoSession == Rejected("No session", <<>>)

NotFoundErrors == {"The market not found", "The token not found"}

\* the step is a call of a method that needs a session on a user without
\* one; the call is the last of calls'
SessionlessCall ==
    /\ Len(calls') = Len(calls) + 1
    /\ calls'[Len(calls')].user # 0
    /\ calls'[Len(calls')].method \in SessionMethods
    /\ users[calls'[Len(calls')].user].sessionId = None

\* nothing was encoded, signed or sent for call c, and nothing will be
NothingSubmitted(c) ==
    /\ c.stage = "done"
    /\ c.encoded = <<>>
    /\ c.body = <<>>
    /\ c.walletSignature \o c.sessionSignature = <<>>
    /\ c.sends = 0

\* every action of a method that needs a session was sent after a
\* refreshSession had succeeded
SentAfterRefresh(cs) ==
    \A i \in 1..Len(cs) :
        (cs[i].method \in SessionMethods /\ cs[i].sends > 0)
            => \E j \in 1..(i - 1) :
                  /\ cs[j].method = "refreshSession"
                  /\ cs[j].stage = "done"
                  /\ cs[j].inner.state = "fulfilled"

\* C26 as first stated: on a NordUser without a session every call of
\* withdraw, placeOrder, cancelOrder, transferToAccount or createAccount
\* fails with the missing-session error, nothing encoded, signed or sent.
C26_NoSessionError ==
    [][SessionlessCall =>
          /\ calls'[Len(calls')].outer = NoSession
          /\ NothingSubmitted(calls'[Len(calls')])]_vars

\* C26: on a NordUser without a session every call of withdraw,
\* placeOrder, cancelOrder, transferToAccount or createAccount fails with
\* the missing-session error or a market or token not-found error, and
\* nothing is encoded, signed or sent; an action of these methods is only
\* ever sent after a refreshSession has succeeded.
C26_NoSessionFails ==
    [][/\ SessionlessCall =>
             /\ calls'[Len(calls')].outer.state = "rejected"
             /\ calls'[Len(calls')].outer.error
                   \in {"No session"} \cup NotFoundErrors
             /\ calls'[Len(calls')].reached = "args"
                   /\ calls'[Len(calls')].method # "withdraw"
                   => calls'[Len(calls')].outer = NoSession
             /\ NothingSubmitted(calls'[Len(calls')])
       /\ SentAfterRefresh(calls')]_vars

C26_Witness ==
    \E i, j \in CallIds :
        /\ calls[i].method = "placeOrder"
        /\ calls[i].reached = "args"
        /\ calls[i].outer = NoSession
        /\ NothingSubmitted(calls[i])
        /\ users[calls[i].user].sessionId = None
        /\ calls[j].method = "withdraw"
        /\ calls[j].outer.state = "rejected"
        /\ calls[j].outer.error = "The token not found"


(***************************************************************************)
(* The claim about the buffer of a Subscriber.                             *)
(***************************************************************************)
\* max(maxBufferLen, 0)
BufferCap == IF conv.maxBufferLen > 0 THEN conv.maxBufferLen ELSE 0

\* the last n elements of s, all of s when it has fewer
LastOf(s, n) ==
    IF Len(s) <= n THEN s ELSE SubSeq(s, Len(s) - n + 1, Len(s))

\* C27: after any sequence of received messages the buffer holds at most
\* max(maxBufferLen, 0) events, and they are the most recently received
\* ones in their order of arrival: each overflow removed the oldest.
C27_BufferBounded ==
    /\ Len(conv.buffer) <= BufferCap
    /\ conv.buffer = LastOf(conv.received, BufferCap)

C27_Witness ==
    /\ conv.maxBufferLen = 2
    /\ conv.received = <<1, 2, 10, 1>>
    /\ conv.buffer = <<10, 1>>


(***************************************************************************)
(* The claims about clones.                                                *)
(***************************************************************************)
UserIds == 1..Len(users)

\* the account ids user u sees
AccountIdsOf(u) ==
    IF users[u].accountIds = 0 THEN {}
    ELSE {arrays[users[u].accountIds][k] :
             k \in 1..Len(arrays[users[u].accountIds])}

\* call i is a createAccount that made a user
MadeUser(i) == calls[i].method = "createAccount" /\ calls[i].newUser # 0

Counter(user) == <<user.lastTs, user.lastNonce>>

\* the step is a call of a method by user u
CallBy(u) ==
    /\ Len(calls') = Len(calls) + 1
    /\ calls'[Len(calls')].user = u

\* C29: a clone starts with the lastTs and lastNonce of the user it was
\* made from, and from then on each user has its own counter: getNonce on
\* one user changes the counter of no other user.
C29_CountersIndependent ==
    [][/\ Len(users') > Len(users) =>
             /\ Len(users') = Len(users) + 1
             /\ \E u \in UserIds :
                   /\ Counter(users'[Len(users')]) = Counter(users[u])
                   /\ \A i \in CallIds :
                         calls'[i].newUser # calls[i].newUser
                             => calls[i].user = u
       /\ \A u \in UserIds :
             Counter(users'[u]) # Counter(users[u]) =>
                 /\ CallBy(u)
                 /\ \A v \in UserIds \ {u} :
                       Counter(users'[v]) = Counter(users[v])]_vars

\* a user and its clone issue the same nonce within one tick
C29_Witness ==
    \E i, j \in CallIds :
        /\ calls[i].user = 1 /\ calls[j].user = 2
        /\ calls[i].reached = "impl" /\ calls[j].reached = "impl"
        /\ calls[i].tick = calls[j].tick
        /\ calls[i].nonce = calls[j].nonce
        /\ calls[i].currentTimestamp = calls[j].currentTimestamp
        /\ Counter(users[1]) = Counter(users[2])


(***************************************************************************)
(* The claim about the nonce a failed call consumes.                       *)
(***************************************************************************)
\* the counter of user after one getNonce step at the clock value ms
OneStep(user, ms) ==
    <<DateNowSeconds(ms),
      IF DateNowSeconds(ms) = user.lastTs THEN user.lastNonce + 1 ELSE 0>>

\* the step is a call by a NordUser; the call is the last of calls'
UserCall ==
    /\ Len(calls') = Len(calls) + 1
    /\ calls'[Len(calls')].user # 0

\* the call failed with one of the errors before anything was signed
FailedWith(c, errors) ==
    /\ c.stage = "done"
    /\ c.sends = 0
    /\ \/ c.outer.state = "rejected" /\ c.outer.error \in errors
       \/ c.inner.state = "rejected" /\ c.inner.error \in errors

MissingErrors == {"No session", "No source account", "No user's public key"}

\* C30 as first stated, in its part about ids: a call that fails because
\* its market or token id is not found leaves lastTs and lastNonce as
\* they were.
C30_NotFoundKeepsNonce ==
    [][(UserCall /\ FailedWith(calls'[Len(calls')], NotFoundErrors)) =>
          Counter(users'[calls'[Len(calls')].user])
              = Counter(users[calls'[Len(calls')].user])]_vars

\* C30: a placeOrder, transferToAccount or createAccount call that fails
\* because its market or token id is not found leaves lastTs and lastNonce
\* as they were; a withdraw call that fails so, and any call that fails for
\* a missing session, account or key or on the validation of an amount or a
\* fill mode, has advanced the nonce by one getNonce step; every call
\* invokes getNonce at most once.
C30_NonceOfFailedCall ==
    [][UserCall =>
          LET c == calls'[Len(calls')]
              before == users[c.user]
              after == Counter(users'[c.user])
          IN /\ after \in {Counter(before), OneStep(before, now')}
             /\ (FailedWith(c, NotFoundErrors) /\ c.method # "withdraw")
                   => (after = Counter(before) /\ c.reached = "method")
             /\ (FailedWith(c, NotFoundErrors) /\ c.method = "withdraw")
                   => (after = OneStep(before, now') /\ c.nonce = after[2])
             /\ FailedWith(c, MissingErrors \cup ValidationErrors)
                   => (after = OneStep(before, now') /\ c.nonce = after[2])
             /\ c.reached # "method"
                   => (after = OneStep(before, now') /\ c.nonce = after[2])]_vars

C30_Witness ==
    \E i, j \in CallIds :
        /\ calls[i].user = calls[j].user /\ calls[i].user # 0
        /\ i < j
        /\ calls[i].method = "placeOrder"
        /\ calls[i].reached = "method"
        /\ calls[i].outer = Rejected("The market not found", <<>>)
        /\ calls[j].method = "placeOrder"
        /\ calls[j].reached = "args"
        /\ calls[j].outer = NoSession
        /\ calls[j].tick = users[calls[j].user].lastTs
        /\ calls[j].nonce = users[calls[j].user].lastNonce

=============================================================================
